---------------------------- MODULE Spec2Model ----------------------------
(***************************************************************************)
(* Verification model of the clarity backend core: the price-consensus     *)
(* engine (app/services/consensus_engine.py behind app/core/cache.py), the *)
(* scorers, the technical analyzer, the recommendation composer and the    *)
(* batch rankers.                                                          *)
(*                                                                         *)
(* Numbers.  Python floats are modelled in fixed point:                    *)
(*   - prices are integers in units of 0.001 rupee ("mills");              *)
(*   - provider weights are integers in tenths (1.0 -> 10);                *)
(*   - round(x, 2) is rounding of the exact quotient to the nearest        *)
(*     multiple of 10 mills, ties to even.                                 *)
(* Python values of unknown type (what a provider puts in a dict) are      *)
(* tagged records: Num(v), StrV(chars), NoneV, ObjV(repr).                 *)
(***************************************************************************)
EXTENDS Integers, Sequences, FiniteSets, TLC

(***************************************************************************)
(* State                                                                   *)
(***************************************************************************)
VARIABLES
    redis_store,    \* the consensus cache entry of the symbol, or NoEntry
    gathered,   \* responses of the fan-out that decided the last call
    fanouts,        \* number of provider fan-outs the last call made
    outcome,        \* what the last get_consensus_price call gave its caller
    cache_call,     \* branch the cache wrapper took in the last call, and its TTL
    rec_in,         \* score dicts handed to _generate_recommendation, per call
    rec_out,        \* the recommendations returned so far, per call
    tech_in,        \* closes of the history handed to the technical analyzer
    tech_out,       \* what TechnicalAnalyzer.analyze returned, or NoOutcome
    trend_out,      \* what TechnicalAnalyzer._detect_trends did, or NoOutcome
    score_in,       \* market data handed to the scorers and the analyzer
    score_out,      \* the scorers' and the fundamental analyzer's results
    rank_in,        \* the universe of a ranking request and its analyses
    rank_out,       \* the pick lists of the rankers
    batch_in,       \* the ranker asked and the size of its universe
    batch_tasks,    \* where each per-symbol analysis task stands
    batch_sem,      \* value of the ranker's semaphore
    batch_scores,   \* per task: what its analysis gave the ranker, or NoOutcome
    batch_picks,    \* the pick list the ranker returned, or NoOutcome
    hours_in,       \* base TTL, clock reading and time between the two clock reads
    hours_out,      \* what get_smart_cache_expiry returned, or NoOutcome
    race_store,     \* the cache entry two concurrent calls race for, or NoEntry
    race_calls,     \* per concurrent call: position, fan-outs made, outcome
    race_last,      \* the call whose redis.set came last, 0 if none
    fan_pc,         \* where _fetch_consensus_internal stands
    fan_tasks,      \* state of each provider call of the fan-out
    fan_merged,     \* number of gathered results the merge loop has consumed
    sig_in,         \* the indicator dicts handed to _generate_signal
    sig_out,        \* the overall signal it returned, or NoOutcome
    stale_call,     \* instant of a get_consensus_price call that misses, and how long its fetch takes
    stale_entry,    \* the entry that call stored, with the instant of the store, or NoEntry
    stale_hit       \* instant of a later call served from that entry, or NoOutcome

consensusVars == <<redis_store, gathered, fanouts, outcome, cache_call>>
recVars == <<rec_in, rec_out>>
techVars == <<tech_in, tech_out, trend_out>>
scoreVars == <<score_in, score_out>>
rankVars == <<rank_in, rank_out>>
batchVars == <<batch_in, batch_tasks, batch_sem, batch_scores, batch_picks>>
hoursVars == <<hours_in, hours_out>>
raceVars == <<race_store, race_calls, race_last>>
fanVars == <<fan_pc, fan_tasks, fan_merged>>
sigVars == <<sig_in, sig_out>>
staleVars == <<stale_call, stale_entry, stale_hit>>

nonConsensusVars == <<recVars, techVars, scoreVars, rankVars, batchVars, hoursVars, raceVars, fanVars, sigVars, staleVars>>
nonRecVars == <<consensusVars, techVars, scoreVars, rankVars, batchVars, hoursVars, raceVars, fanVars, sigVars, staleVars>>
nonTechVars == <<consensusVars, recVars, scoreVars, rankVars, batchVars, hoursVars, raceVars, fanVars, sigVars, staleVars>>
nonScoreVars == <<consensusVars, recVars, techVars, rankVars, batchVars, hoursVars, raceVars, fanVars, sigVars, staleVars>>
nonRankVars == <<consensusVars, recVars, techVars, scoreVars, batchVars, hoursVars, raceVars, fanVars, sigVars, staleVars>>
nonBatchVars == <<consensusVars, recVars, techVars, scoreVars, rankVars, hoursVars, raceVars, fanVars, sigVars, staleVars>>
nonHoursVars == <<consensusVars, recVars, techVars, scoreVars, rankVars, batchVars, raceVars, fanVars, sigVars, staleVars>>
nonRaceVars == <<consensusVars, recVars, techVars, scoreVars, rankVars, batchVars, hoursVars, fanVars, sigVars, staleVars>>
nonFanVars == <<consensusVars, recVars, techVars, scoreVars, rankVars, batchVars, hoursVars, raceVars, sigVars, staleVars>>
nonSigVars == <<consensusVars, recVars, techVars, scoreVars, rankVars, batchVars, hoursVars, raceVars, fanVars, staleVars>>
nonStaleVars == <<consensusVars, recVars, techVars, scoreVars, rankVars, batchVars, hoursVars, raceVars, fanVars, sigVars>>

vars == <<consensusVars, recVars, techVars, scoreVars, rankVars, batchVars, hoursVars, raceVars, fanVars, sigVars, staleVars>>

NoEntry == [present |-> FALSE]
Entry(v, ex) == [present |-> TRUE, value |-> v, ex |-> ex]

NoOutcome == [kind |-> "none"]

\* no consensus call has been made
ConsensusIdle ==
    /\ redis_store = NoEntry
    /\ gathered = <<>>
    /\ fanouts = 0
    /\ outcome = NoOutcome
    /\ cache_call = NoOutcome

\* no recommendation has been asked for
RecIdle == rec_in = <<>> /\ rec_out = <<>>

\* no technical analysis has been asked for
TechIdle == tech_in = <<>> /\ tech_out = NoOutcome /\ trend_out = NoOutcome

\* nothing has been scored
ScoreIdle == score_in = NoOutcome /\ score_out = NoOutcome

\* nothing has been ranked
RankIdle == rank_in = <<>> /\ rank_out = NoOutcome

\* no batch has been started
BatchIdle ==
    /\ batch_in = NoOutcome /\ batch_tasks = <<>> /\ batch_sem = 0
    /\ batch_scores = <<>> /\ batch_picks = NoOutcome

\* no cache expiry has been computed
HoursIdle == hours_in = NoOutcome /\ hours_out = NoOutcome

\* no concurrent calls are under way
RaceIdle == race_store = NoEntry /\ race_calls = <<>> /\ race_last = 0

\* no fan-out has been started
FanIdle == fan_pc = "idle" /\ fan_tasks = <<>> /\ fan_merged = 0

\* no overall signal has been asked for
SigIdle == sig_in = NoOutcome /\ sig_out = NoOutcome

\* no entry is being aged
StaleIdle == stale_call = NoOutcome /\ stale_entry = NoEntry /\ stale_hit = NoOutcome

(***************************************************************************)
(* Python values                                                           *)
(***************************************************************************)
Num(v) == [t |-> "num", v |-> v]
StrV(s) == [t |-> "str", s |-> s]
NoneV == [t |-> "none"]
ObjV(r) == [t |-> "obj", repr |-> r]

\* bool(x) of a Python value
Truthy(x) ==
    CASE x.t = "num" -> x.v # 0
      [] x.t = "str" -> Len(x.s) > 0
      [] x.t = "none" -> FALSE
      [] OTHER -> TRUE

\* a or b
PyOr(a, b) == IF Truthy(a) THEN a ELSE b

\* d.get(k, default) on a dict modelled as a function from key to value
Get(d, k, default) == IF k \in DOMAIN d THEN d[k] ELSE default

Digits == {"0", "1", "2", "3", "4", "5", "6", "7", "8", "9"}

DigitVal(c) ==
    CASE c = "0" -> 0 [] c = "1" -> 1 [] c = "2" -> 2 [] c = "3" -> 3
      [] c = "4" -> 4 [] c = "5" -> 5 [] c = "6" -> 6 [] c = "7" -> 7
      [] c = "8" -> 8 [] c = "9" -> 9

\* str.replace(ch, '') : drop every occurrence of the character ch
RECURSIVE StrRemove(_, _)
StrRemove(s, ch) ==
    IF s = <<>> THEN <<>>
    ELSE IF Head(s) = ch THEN StrRemove(Tail(s), ch)
         ELSE <<Head(s)>> \o StrRemove(Tail(s), ch)

IndexOfDot(s) ==
    IF \E i \in 1..Len(s) : s[i] = "."
    THEN CHOOSE i \in 1..Len(s) : s[i] = "." /\ \A j \in 1..(i-1) : s[j] # "."
    ELSE 0

RECURSIVE DigitsToInt(_)
DigitsToInt(s) ==
    IF s = <<>> THEN 0 ELSE DigitsToInt(SubSeq(s, 1, Len(s)-1)) * 10 + DigitVal(s[Len(s)])

\* float(s) for a string: [sign] digits [. digits]; anything else raises
\* ValueError.  The value is returned in mills (three decimals are kept).
Unsigned(s) == IF Len(s) > 0 /\ s[1] \in {"-", "+"} THEN Tail(s) ELSE s

IntPart(body) ==
    IF IndexOfDot(body) = 0 THEN body ELSE SubSeq(body, 1, IndexOfDot(body) - 1)

FracPart(body) ==
    IF IndexOfDot(body) = 0 THEN <<>> ELSE SubSeq(body, IndexOfDot(body) + 1, Len(body))

FloatOfParts(neg, ip, fp) ==
    IF /\ Len(ip) + Len(fp) > 0
       /\ \A i \in 1..Len(ip) : ip[i] \in Digits
       /\ \A i \in 1..Len(fp) : fp[i] \in Digits
       /\ Len(fp) <= 3
    THEN [ok |-> TRUE,
          v |-> (IF neg THEN 0 - 1 ELSE 1) *
                (DigitsToInt(ip) * 1000
                 + DigitsToInt(fp \o SubSeq(<<"0", "0", "0">>, 1, 3 - Len(fp))))]
    ELSE [ok |-> FALSE, exc |-> "ValueError"]

FloatOfStr(s) ==
    FloatOfParts(Len(s) > 0 /\ s[1] = "-", IntPart(Unsigned(s)), FracPart(Unsigned(s)))

\* float(x) for a non-string Python value
FloatOfValue(x) ==
    IF x.t = "num" THEN [ok |-> TRUE, v |-> x.v]
    ELSE [ok |-> FALSE, exc |-> "TypeError"]

\* round(n/d) to the nearest integer, ties to even (n >= 0, d > 0)
RoundHalfEven(n, d) ==
    LET q == n \div d
        r == n % d
    IN IF 2 * r < d THEN q
       ELSE IF 2 * r > d THEN q + 1
       ELSE IF q % 2 = 0 THEN q ELSE q + 1

(***************************************************************************)
(* Market hours (app/utils/market_hours.py).  A clock reading is the IST   *)
(* weekday (0 = Monday), the whole second of the day and the microsecond   *)
(* within it; IST has no daylight saving, so a day is 86400 seconds.       *)
(***************************************************************************)
MARKET_OPEN == 33300
MARKET_CLOSE == 55800

\* the clock reading `elapsed` seconds after `now`
ClockAfter(now, elapsed) ==
    [weekday |-> (now.weekday + (now.second + elapsed) \div 86400) % 7,
     second |-> (now.second + elapsed) % 86400,
     microsecond |-> now.microsecond]

\* now.time() > MARKET_CLOSE (line 63; line 38 tests its negation):
\* MARKET_CLOSE is 15:30:00.000000
AfterClose(now) ==
    \/ now.second > MARKET_CLOSE
    \/ now.second = MARKET_CLOSE /\ now.microsecond > 0

\* is_market_open, market_hours.py 23-38, at the reading of its own
\* datetime.now(IST)
IsMarketOpen(now) ==
    /\ now.weekday < 5
    /\ MARKET_OPEN <= now.second
    /\ ~AfterClose(now)

RECURSIVE SkipWeekends(_, _)
\* market_hours.py 66-68: days added to `now` until next_open is a weekday
SkipWeekends(weekday, days) ==
    IF (weekday + days) % 7 >= 5 THEN SkipWeekends(weekday, days + 1) ELSE days

\* market_hours.py 60-68: whole seconds from the start of now's second to
\* next_open
WholeSecondsUntilOpen(now) ==
    SkipWeekends(now.weekday, IF AfterClose(now) THEN 1 ELSE 0) * 86400
    + MARKET_OPEN - now.second

\* market_hours.py 71: int((next_open - now).total_seconds()); int()
\* truncates toward zero, which drops the fraction of a positive difference
SecondsUntilOpen(now) ==
    IF now.microsecond > 0 /\ WholeSecondsUntilOpen(now) > 0
    THEN WholeSecondsUntilOpen(now) - 1
    ELSE WholeSecondsUntilOpen(now)

\* get_smart_cache_expiry, market_hours.py 40-74: `now` is read on line 53,
\* is_market_open reads the clock again (line 30) `elapsed` seconds later
GetSmartCacheExpiry(base_expiry, now, elapsed) ==
    IF IsMarketOpen(ClockAfter(now, elapsed)) THEN base_expiry
    ELSE IF SecondsUntilOpen(now) < 86400 THEN SecondsUntilOpen(now)
    ELSE 86400

\* seconds of the day around midnight, the session open and the session
\* close
ClockSeconds ==
    {0, 1, 33299, 33300, 33301, 45000, 55799, 55800, 55801, 70000, 86399}

MaxElapsed == 1

HoursInit ==
    /\ hours_in \in [base_expiry : {60, 300},
                     now : [weekday : 0..6, second : ClockSeconds,
                            microsecond : {0, 500000}],
                     elapsed : 0..MaxElapsed]
    /\ hours_out = NoOutcome
    /\ ConsensusIdle /\ RecIdle /\ TechIdle /\ ScoreIdle /\ RankIdle /\ BatchIdle /\ RaceIdle /\ FanIdle /\ SigIdle /\ StaleIdle

\* consensus_engine.py 39: cache_expiry = get_smart_cache_expiry(60)
HoursGetSmartCacheExpiry ==
    /\ hours_out = NoOutcome
    /\ hours_out' = [kind |-> "return",
                     value |-> GetSmartCacheExpiry(hours_in.base_expiry,
                                                   hours_in.now, hours_in.elapsed)]
    /\ UNCHANGED hours_in
    /\ UNCHANGED nonHoursVars

NextHours == HoursGetSmartCacheExpiry

(***************************************************************************)
(* Claims on the market hours                                              *)
(***************************************************************************)
\* the instant is a weekday between 09:15:00 and 15:30:00 inclusive
SessionOpen(t) ==
    /\ t.weekday < 5 /\ t.second >= 33300
    /\ (t.second < 55800 \/ (t.second = 55800 /\ t.microsecond = 0))

\* whole seconds from t to the next weekday 09:15:00 after it
ToNextSessionOpen(t) ==
    LET ahead == {k \in 0..7 : /\ k * 86400 + 33300 - t.second > 0
                               /\ (t.weekday + k) % 7 < 5}
        first == CHOOSE k \in ahead : \A j \in ahead : k <= j
    IN first * 86400 + 33300 - t.second - (IF t.microsecond > 0 THEN 1 ELSE 0)

\* the TTL claimed for a call made at instant t
ClaimedExpiry(base, t) ==
    IF SessionOpen(t) THEN base
    ELSE IF ToNextSessionOpen(t) < 86400 THEN ToNextSessionOpen(t) ELSE 86400

\* C14: get_smart_cache_expiry(base) returns base at an instant at which
\* the market is open and min(seconds until the next weekday 09:15 session
\* open, 86400) at every other instant, the instant being one of the
\* call's clock readings.
C14_BaseWhenOpenElseUntilOpen ==
    hours_out # NoOutcome =>
        \E e \in {0, hours_in.elapsed} :
            hours_out.value
                = ClaimedExpiry(hours_in.base_expiry, ClockAfter(hours_in.now, e))

\* the larger of base and 86400
MaxExpiry(base) == IF base > 86400 THEN base ELSE 86400

\* C30: get_smart_cache_expiry(base) with base >= 1 returns a TTL in
\* [1, max(base, 86400)] at every instant of the week, the instants just
\* before a session open and just after a session close included.
C30_ExpiryAlwaysPositive ==
    hours_out # NoOutcome =>
        /\ hours_out.value >= 1
        /\ hours_out.value <= MaxExpiry(hours_in.base_expiry)

SpecHours == HoursInit /\ [][NextHours]_vars

(***************************************************************************)
(* Consensus engine                                                        *)
(***************************************************************************)
\* ConsensusEngine.__init__: the fixed provider list, by source_name
Providers == <<"NSE_Lib", "YahooFinance", "GoogleFinance">>

\* the table with the Yahoo and Google weights exchanged
Weight_Swapped(provider_name) ==
    CASE provider_name = "NSE_Lib" -> 10
      [] provider_name = "YahooFinance" -> 6
      [] provider_name = "GoogleFinance" -> 8
      [] OTHER -> 5

\* weights.get(provider_name, 0.5), in tenths
Weight(provider_name) ==
    CASE provider_name = "NSE_Lib" -> 10
      [] provider_name = "YahooFinance" -> 8
      [] provider_name = "GoogleFinance" -> 6
      [] OTHER -> 5

\* What asyncio.gather(..., return_exceptions=True) hands back for one
\* provider: an exception object, a non-dict value, or a dict.
ExcResp == [kind |-> "exc"]
NonDictResp == [kind |-> "nondict"]
DictResp(d) == [kind |-> "dict", d |-> d]

\* Lines 76-90: the price a provider's dict yields.  The result is
\*   [ok |-> TRUE, valid |-> TRUE, price |-> p]   a positive price,
\*   [ok |-> TRUE, valid |-> FALSE]               price > 0 is false,
\*   [ok |-> FALSE, exc |-> e]                    the extraction raised.
PositiveTest(x) ==
    IF x.t = "num"
    THEN IF x.v > 0 THEN [ok |-> TRUE, valid |-> TRUE, price |-> x.v]
         ELSE [ok |-> TRUE, valid |-> FALSE]
    ELSE [ok |-> FALSE, exc |-> "TypeError"]

ExtractPrice(provider_name, res) ==
    CASE provider_name = "NSE_Lib" ->
            LET p == Get(res, "LastPrice", Num(0))
                f == IF p.t = "str" THEN FloatOfStr(StrRemove(p.s, ","))
                     ELSE FloatOfValue(p)
            IN IF f.ok THEN PositiveTest(Num(f.v)) ELSE f
      [] provider_name = "YahooFinance" ->
            PositiveTest(PyOr(PyOr(Get(res, "currentPrice", NoneV),
                                   Get(res, "regularMarketPrice", NoneV)),
                              Get(res, "price", Num(0))))
      [] provider_name = "GoogleFinance" ->
            PositiveTest(Get(res, "price", Num(0)))
      [] OTHER -> PositiveTest(Num(0))

\* the loop without the isinstance(res, Exception) guard: a provider's
\* exception is re-raised instead of skipped
RECURSIVE CollectValid_Reraise(_, _)
CollectValid_Reraise(details_list, i) ==
    IF i = 0 THEN [ok |-> TRUE, valid |-> <<>>]
    ELSE LET before == CollectValid_Reraise(details_list, i - 1)
             res == details_list[i]
             provider_name == Providers[i]
         IN IF ~before.ok THEN before
            ELSE IF res.kind = "exc" THEN [ok |-> FALSE, exc |-> "Exception"]
            ELSE IF res.kind # "dict" THEN before
            ELSE LET x == ExtractPrice(provider_name, res.d)
                 IN IF ~x.ok THEN [ok |-> FALSE, exc |-> x.exc]
                    ELSE IF ~x.valid THEN before
                    ELSE [ok |-> TRUE,
                          valid |-> Append(before.valid,
                                           [price |-> x.price,
                                            weight |-> Weight(provider_name),
                                            source |-> provider_name,
                                            data |-> res.d])]

\* Lines 66-99: the loop over details_list.  Returns the list of valid
\* entries built so far, or the exception that left the loop.
RECURSIVE CollectValid(_, _)
CollectValid(details_list, i) ==
    IF i = 0 THEN [ok |-> TRUE, valid |-> <<>>]
    ELSE LET before == CollectValid(details_list, i - 1)
             res == details_list[i]
             provider_name == Providers[i]
         IN IF ~before.ok THEN before
            ELSE IF res.kind # "dict" THEN before
            ELSE LET x == ExtractPrice(provider_name, res.d)
                 IN IF ~x.ok THEN [ok |-> FALSE, exc |-> x.exc]
                    ELSE IF ~x.valid THEN before
                    ELSE [ok |-> TRUE,
                          valid |-> Append(before.valid,
                                           [price |-> x.price,
                                            weight |-> Weight(provider_name),
                                            source |-> provider_name,
                                            data |-> res.d])]

RECURSIVE SumW(_)
SumW(vs) == IF vs = <<>> THEN 0 ELSE vs[1].weight + SumW(Tail(vs))

RECURSIVE SumPW(_)
SumPW(vs) == IF vs = <<>> THEN 0 ELSE vs[1].price * vs[1].weight + SumPW(Tail(vs))

MinPrice(vs) == CHOOSE p \in {vs[i].price : i \in 1..Len(vs)} :
                    \A j \in 1..Len(vs) : p <= vs[j].price
MaxPrice(vs) == CHOOSE p \in {vs[i].price : i \in 1..Len(vs)} :
                    \A j \in 1..Len(vs) : p >= vs[j].price

\* the thresholds compared with <= instead of <
StatusOf_Inclusive(n, min_p, max_p) ==
    IF n >= 2
    THEN IF (max_p - min_p) * 1000 <= 5 * min_p THEN "VERIFIED"
         ELSE IF (max_p - min_p) * 100 <= min_p THEN "WARNING"
         ELSE "UNSTABLE"
    ELSE "SINGLE_SOURCE"

\* Lines 115-120.  variance < 0.005 is (max - min) * 1000 < 5 * min.
StatusOf(n, min_p, max_p) ==
    IF n >= 2
    THEN IF (max_p - min_p) * 1000 < 5 * min_p THEN "VERIFIED"
         ELSE IF (max_p - min_p) * 100 < min_p THEN "WARNING"
         ELSE "UNSTABLE"
    ELSE "SINGLE_SOURCE"

\* list.sort(key=weight, reverse=True): stable, descending
RECURSIVE InsertByWeight(_, _)
InsertByWeight(sorted, x) ==
    IF sorted = <<>> THEN <<x>>
    ELSE IF sorted[1].weight >= x.weight
         THEN <<sorted[1]>> \o InsertByWeight(Tail(sorted), x)
         ELSE <<x>> \o sorted

\* list.sort(key=weight) without reverse=True: ascending
SortByWeightDesc_Ascending(vs) ==
    [i \in 1..Len(vs) |->
        CHOOSE e \in {vs[k] : k \in 1..Len(vs)} :
            Cardinality({k \in 1..Len(vs) : vs[k].weight < e.weight}) = i - 1]

RECURSIVE SortByWeightDesc(_)
SortByWeightDesc(vs) ==
    IF vs = <<>> THEN <<>>
    ELSE InsertByWeight(SortByWeightDesc(SubSeq(vs, 1, Len(vs) - 1)), vs[Len(vs)])

\* round(final_price, 1): one decimal instead of two
RoundedPrice_OneDecimal(vs) == RoundHalfEven(SumPW(vs), SumW(vs) * 100) * 100

\* round(final_price, 2), in mills
RoundedPrice(vs) == RoundHalfEven(SumPW(vs), SumW(vs) * 10) * 10

\* round(variance * 100, 2), in hundredths of a percent
VariancePct(min_p, max_p) == RoundHalfEven((max_p - min_p) * 10000, min_p)

SourceMap(vs) == [s \in {vs[i].source : i \in 1..Len(vs)} |->
                    (CHOOSE e \in {vs[i] : i \in 1..Len(vs)} : e.source = s).price]

\* ConsensusEngine._fetch_consensus_internal
FetchConsensusInternal(details_list) ==
    LET c == CollectValid(details_list, Len(details_list))
    IN IF ~c.ok THEN [kind |-> "raise", exc |-> c.exc]
       ELSE IF c.valid = <<>>
       THEN [kind |-> "return",
             value |-> [status |-> "ERROR", price |-> 0,
                        message |-> "No data source available"]]
       ELSE LET vs == c.valid
                min_p == MinPrice(vs)
                max_p == MaxPrice(vs)
                sorted == SortByWeightDesc(vs)
            IN [kind |-> "return",
                value |-> [price |-> RoundedPrice(vs),
                           status |-> StatusOf(Len(vs), min_p, max_p),
                           variance_pct |-> VariancePct(min_p, max_p),
                           sources |-> SourceMap(vs),
                           primary_source |-> sorted[1].source,
                           details |-> sorted[1].data]]


(***************************************************************************)
(* Cache decorator (app/core/cache.py) around the consensus fetch          *)
(***************************************************************************)
\* json.loads(json.dumps(x, default=str)) on one Python value: numbers,
\* strings and None survive, any other object comes back as its str().
JsonValue(x) == IF x.t = "obj" THEN StrV(x.repr) ELSE x

JsonDict(d) == [k \in DOMAIN d |-> JsonValue(d[k])]

\* json.loads(json.dumps(result, default=str)) on a consensus result
JsonRoundTrip(result) ==
    IF "details" \in DOMAIN result
    THEN [result EXCEPT !.details = JsonDict(result.details)]
    ELSE result

\* The raw responses the providers are observed to give for one symbol.
NSEResponses ==
    { ExcResp,
      NonDictResp,
      DictResp(<<>>),
      DictResp([LastPrice |-> StrV(<<"-">>)]),
      DictResp([LastPrice |-> StrV(<<"1", ",", "0", "0", "0", ".", "0", "0">>),
                Date |-> ObjV(<<"T", "s">>)]) }

YahooResponses ==
    { ExcResp,
      DictResp(<<>>),
      DictResp([currentPrice |-> NoneV, regularMarketPrice |-> Num(1004990)]),
      DictResp([currentPrice |-> Num(1005000)]),
      DictResp([currentPrice |-> Num(1010000)]),
      DictResp([currentPrice |-> StrV(<<"N", "/", "A">>)]) }

GoogleResponses ==
    { DictResp([price |-> Num(0), source |-> StrV(<<"G">>)]),
      DictResp([price |-> Num(1000123), source |-> StrV(<<"G">>)]),
      DictResp([price |-> Num(1009990), source |-> StrV(<<"G">>)]),
      DictResp([price |-> Num(0 - 5000), source |-> StrV(<<"G">>)]) }

\* One settled fan-out: what gather returns, in provider order
FanOuts == { <<n, y, g>> : n \in NSEResponses, y \in YahooResponses, g \in GoogleResponses }



\* instants at which get_consensus_price is called: in session, on the
\* weekend, and with the two clock readings on either side of the close
CallClocks ==
    {[now |-> [weekday |-> 0, second |-> 45000, microsecond |-> 0], elapsed |-> 0],
     [now |-> [weekday |-> 5, second |-> 45000, microsecond |-> 0], elapsed |-> 0],
     [now |-> [weekday |-> 0, second |-> 55800, microsecond |-> 0], elapsed |-> 1]}

\* consensus_engine.py 39: cache_expiry = get_smart_cache_expiry(60)
CacheExpiry(clock) == GetSmartCacheExpiry(60, clock.now, clock.elapsed)

\* the wrapper's branch; on a miss also the TTL it was built with
\* (cache.py 12, 56), which the other branches never use
CacheCall(path) == [path |-> path]
CacheMiss(clock) == [path |-> "miss", expire |-> CacheExpiry(clock)]

ConsensusInit ==
    /\ ConsensusIdle /\ RecIdle /\ TechIdle /\ ScoreIdle /\ RankIdle
    /\ BatchIdle /\ HoursIdle /\ RaceIdle /\ FanIdle /\ SigIdle /\ StaleIdle

\* cache.py 42-43 raise (redis not initialised or unreachable): the except
\* branch at 59-62 runs the wrapped function without caching.
ConsensusCacheDown ==
    \E dl \in FanOuts :
        /\ gathered' = dl
        /\ fanouts' = 1
        /\ outcome' = FetchConsensusInternal(dl)
        /\ cache_call' = CacheCall("down")
        /\ UNCHANGED redis_store
        /\ UNCHANGED nonConsensusVars

\* cache.py 45-48: hit, the stored JSON is returned, no provider is called
ConsensusCacheHit ==
    /\ redis_store.present
    /\ cache_call' = CacheCall("hit")
    /\ gathered' = <<>>
    /\ fanouts' = 0
    /\ outcome' = [kind |-> "return", value |-> redis_store.value]
    /\ UNCHANGED redis_store
    /\ UNCHANGED nonConsensusVars

\* cache.py 50-58: miss, the function returns, the result is stored with
\* ex=expire (every result dict is non-empty, so `if result` holds; redis
\* takes a positive expire time only) and returned
ConsensusMissStore ==
    /\ ~redis_store.present
    /\ \E dl \in FanOuts, clock \in CallClocks :
        LET r == FetchConsensusInternal(dl)
        IN /\ r.kind = "return"
           /\ CacheExpiry(clock) > 0
           /\ gathered' = dl
           /\ fanouts' = 1
           /\ outcome' = r
           /\ cache_call' = CacheMiss(clock)
           /\ redis_store' = Entry(JsonRoundTrip(r.value), CacheExpiry(clock))
    /\ UNCHANGED nonConsensusVars

\* some first fan-out raises inside the wrapped function, or redis.set fails
\* (connection lost, or an expire time that is not positive)
RetryCauseExists ==
    \E dl1 \in FanOuts, setFails \in BOOLEAN :
        FetchConsensusInternal(dl1).kind = "raise" \/ setFails

\* cache.py 52 raises, or 56 (redis.set) raises: the except branch at 59-62
\* calls the wrapped function a second time and lets its outcome through
ConsensusMissRetry ==
    /\ ~redis_store.present
    /\ RetryCauseExists = TRUE
    /\ \E dl2 \in FanOuts, clock \in CallClocks :
        /\ gathered' = dl2
        /\ fanouts' = 2
        /\ outcome' = FetchConsensusInternal(dl2)
        /\ cache_call' = CacheMiss(clock)
    /\ UNCHANGED redis_store
    /\ UNCHANGED nonConsensusVars

\* the entry's TTL runs out
ConsensusEntryExpires ==
    /\ redis_store.present
    /\ redis_store' = NoEntry
    /\ UNCHANGED <<gathered, fanouts, outcome, cache_call>>
    /\ UNCHANGED nonConsensusVars

NextConsensus ==
    \/ ConsensusCacheDown
    \/ ConsensusCacheHit
    \/ ConsensusMissStore
    \/ ConsensusMissRetry
    \/ ConsensusEntryExpires

(***************************************************************************)
(* Claims on the consensus engine                                          *)
(***************************************************************************)
\* the providers whose response of the deciding fan-out is a valid quote
IsValidQuote(i) ==
    /\ gathered[i].kind = "dict"
    /\ ExtractPrice(Providers[i], gathered[i].d).ok
    /\ ExtractPrice(Providers[i], gathered[i].d).valid

ValidQuotes == IF fanouts = 0 THEN {} ELSE {i \in 1..Len(Providers) : IsValidQuote(i)}

QuotePrice(i) == ExtractPrice(Providers[i], gathered[i].d).price

\* a provider failed in one of the three ways the engine skips
IsSkippedQuote(i) ==
    \/ gathered[i].kind \in {"exc", "nondict"}
    \/ /\ gathered[i].kind = "dict"
       /\ ExtractPrice(Providers[i], gathered[i].d).ok
       /\ ~ExtractPrice(Providers[i], gathered[i].d).valid

Fetched == fanouts >= 1
Returned == outcome.kind = "return"

LowQuote == CHOOSE p \in {QuotePrice(i) : i \in ValidQuotes} :
                \A j \in ValidQuotes : p <= QuotePrice(j)
HighQuote == CHOOSE p \in {QuotePrice(i) : i \in ValidQuotes} :
                \A j \in ValidQuotes : p >= QuotePrice(j)

\* C1: whenever a fetch with at least two valid quotes returns, the status
\* is VERIFIED if (max-min)/min < 0.5%, WARNING if it is at least 0.5% and
\* below 1%, UNSTABLE otherwise.
C1_StatusByVariance ==
    (Fetched /\ Returned /\ Cardinality(ValidQuotes) >= 2) =>
        outcome.value.status =
            (IF (HighQuote - LowQuote) * 1000 < 5 * LowQuote THEN "VERIFIED"
             ELSE IF (HighQuote - LowQuote) * 100 < LowQuote THEN "WARNING"
             ELSE "UNSTABLE")

C1_Witness ==
    /\ Fetched /\ Returned /\ Cardinality(ValidQuotes) >= 2
    /\ (HighQuote - LowQuote) * 1000 = 5 * LowQuote
    /\ outcome.value.status = "WARNING"

\* C2 as stated: with exactly one valid quote the status is SINGLE_SOURCE
\* and the consensus price is that quote exactly.
C2_SingleSourceExact ==
    (Fetched /\ Returned /\ Cardinality(ValidQuotes) = 1) =>
        /\ outcome.value.status = "SINGLE_SOURCE"
        /\ \A i \in ValidQuotes : outcome.value.price = QuotePrice(i)

\* C2 amended: with exactly one valid quote the status is SINGLE_SOURCE and
\* the consensus price is that quote rounded to two decimals (a multiple of
\* 0.01 at most 0.005 away from the quote).
C2_SingleSourceRounded ==
    (Fetched /\ Returned /\ Cardinality(ValidQuotes) = 1) =>
        /\ outcome.value.status = "SINGLE_SOURCE"
        /\ \A i \in ValidQuotes :
            /\ outcome.value.price % 10 = 0
            /\ outcome.value.price - QuotePrice(i) \in (0 - 5)..5

C2_Witness ==
    /\ Fetched /\ Returned /\ Cardinality(ValidQuotes) = 1
    /\ \E i \in ValidQuotes : QuotePrice(i) % 10 # 0 /\ Providers[i] = "GoogleFinance"

\* C3: when every provider raises, returns a non-dict or returns a
\* non-positive price, the call returns status ERROR with price 0.0 and
\* does not raise.
C3_AllFailedIsError ==
    (Fetched /\ \A i \in 1..Len(Providers) : IsSkippedQuote(i)) =>
        /\ Returned
        /\ outcome.value.status = "ERROR"
        /\ outcome.value.price = 0

C3_Witness ==
    /\ Fetched
    /\ gathered[1].kind = "exc"
    /\ gathered[2].kind = "dict" /\ IsSkippedQuote(2)
    /\ gathered[3].kind = "dict" /\ IsSkippedQuote(3)
    /\ Returned /\ outcome.value.status = "ERROR"

\* the weight table the specification gives, in tenths
ClaimedWeight(name) ==
    CASE name = "NSE_Lib" -> 10 [] name = "YahooFinance" -> 8
      [] name = "GoogleFinance" -> 6 [] OTHER -> 5

RECURSIVE SumOver(_, _)
SumOver(S, f) ==
    IF S = {} THEN 0
    ELSE LET x == CHOOSE y \in S : TRUE IN f[x] + SumOver(S \ {x}, f)

ClaimedWeightSum == SumOver(ValidQuotes, [i \in ValidQuotes |-> ClaimedWeight(Providers[i])])
ClaimedWeightedSum ==
    SumOver(ValidQuotes, [i \in ValidQuotes |-> QuotePrice(i) * ClaimedWeight(Providers[i])])

\* C4 as stated: the returned price equals sum(price*weight)/sum(weight)
\* over exactly the valid quotes.
C4_WeightedAverageExact ==
    (Fetched /\ Returned /\ ValidQuotes # {}) =>
        outcome.value.price * ClaimedWeightSum = ClaimedWeightedSum

\* C4 amended: the returned price is that weighted average rounded to two
\* decimals: a multiple of 0.01 at most 0.005 away from it.
C4_WeightedAverageRounded ==
    (Fetched /\ Returned /\ ValidQuotes # {}) =>
        /\ outcome.value.price % 10 = 0
        /\ LET diff == outcome.value.price * ClaimedWeightSum - ClaimedWeightedSum
           IN diff \in (0 - 5 * ClaimedWeightSum)..(5 * ClaimedWeightSum)

C4_Witness ==
    /\ Fetched /\ Returned /\ Cardinality(ValidQuotes) = 3
    /\ outcome.value.price * ClaimedWeightSum # ClaimedWeightedSum

\* C5: whenever at least one provider yields a valid positive price, the
\* call returns a non-ERROR result and propagates no exception, whatever
\* the other providers did.
C5_OneFailureNeverAborts ==
    (Fetched /\ ValidQuotes # {}) =>
        /\ Returned
        /\ outcome.value.status # "ERROR"

\* the successful provider the specification's weight table ranks highest
HighestWeightValid ==
    CHOOSE i \in ValidQuotes :
        \A j \in ValidQuotes : ClaimedWeight(Providers[i]) >= ClaimedWeight(Providers[j])

NonError == Returned /\ outcome.value.status # "ERROR"

\* C19: in every non-ERROR result, primary_source is the provider with the
\* highest weight among those that gave a valid quote, details is the raw
\* payload that provider returned, and primary_source is a key of sources.
C19_PrimaryIsHighestWeight ==
    /\ (Fetched /\ NonError) =>
          /\ outcome.value.primary_source = Providers[HighestWeightValid]
          /\ outcome.value.details = gathered[HighestWeightValid].d
    /\ NonError => outcome.value.primary_source \in DOMAIN outcome.value.sources

\* NSE raised, Yahoo and Google quoted: Yahoo is primary, with its payload
C19_Witness ==
    /\ Fetched /\ NonError
    /\ gathered[1].kind = "exc"
    /\ ValidQuotes = {2, 3}
    /\ outcome.value.primary_source = "YahooFinance"
    /\ outcome.value.details = gathered[2].d
    /\ DOMAIN outcome.value.sources = {"YahooFinance", "GoogleFinance"}

\* C20: every result produced from fewer than two valid quotes carries a
\* variance_pct field equal to 0, the ERROR result (no valid quote) included.
C20_FewQuotesZeroVariance ==
    (Fetched /\ Returned /\ Cardinality(ValidQuotes) < 2) =>
        /\ "variance_pct" \in DOMAIN outcome.value
        /\ outcome.value.variance_pct = 0

\* C27: in one call through the cache decorator the wrapped function (here
\* the provider fan-out) is executed at most once, whatever fails.
C27_FunctionRunsAtMostOnce == fanouts <= 1

\* C28: a result with status ERROR is never stored in the cache, so no call
\* is answered from the cache with an ERROR result: the call after one in
\* which all providers failed queries the providers again.
C28_ErrorNeverStored ==
    /\ redis_store.present => redis_store.value.status # "ERROR"
    /\ (cache_call # NoOutcome /\ cache_call.path = "hit")
          => outcome.value.status # "ERROR"

\* the step is a get_consensus_price call (every other step only removes
\* the entry)
CallStep == ~(redis_store.present /\ ~redis_store'.present)

\* C15: a call that finds an unexpired cache entry returns the stored
\* result without invoking any provider; a call that misses invokes the
\* provider fan-out once, stores the result under the TTL computed for that
\* call, and returns it.
C15_HitReturnsStoredMissFetchesOnce ==
    [][CallStep =>
          /\ cache_call'.path = "hit" =>
                /\ fanouts' = 0
                /\ outcome' = [kind |-> "return", value |-> redis_store.value]
          /\ cache_call'.path = "miss" =>
                /\ fanouts' = 1
                /\ outcome'.kind = "return"
                /\ redis_store' = Entry(JsonRoundTrip(outcome'.value),
                                        cache_call'.expire)]_vars

SpecConsensus == ConsensusInit /\ [][NextConsensus]_vars


(***************************************************************************)
(* Recommendation composer: MarketService._generate_recommendation         *)
(* (market_service.py 457-516).  Scores are integers; the composite is     *)
(* kept in tenths together with the direction of the double's error.       *)
(***************************************************************************)

\* Score tuples (stability, timing, risk, health) whose weighted sum at lines
\* 467-472, evaluated in IEEE-754 doubles in the order written, falls short
\* of the exact decimal sum: 53*0.3 + 99*0.3 + 93*0.2 + 54*0.2 evaluates to
\* 74.99999999999999.  For every other tuple of RecCalls the double lies on
\* the same side of every whole and half number as the exact sum.
FloatShortfall == {<<53, 99, 7, 54>>}

\* lines 467-472
Composite(s, t, r, f) ==
    [tenths |-> 3 * s + 3 * t + 2 * (100 - r) + 2 * f,
     short |-> <<s, t, r, f>> \in FloatShortfall]

\* lines 461-465: the four reads with their defaults, then the composite
CompositeOf(call) ==
    Composite(Get(call.stability, "score", 0),
              Get(call.timing, "score", 0),
              Get(call.risk, "risk_score", 50),
              Get(call.fundamental, "health_score", 50))

\* composite >= n, as the double compares
AtLeast(c, n) == c.tenths > 10 * n \/ (c.tenths = 10 * n /\ ~c.short)

\* round(composite), line 509
RoundComposite(c) ==
    IF c.short /\ c.tenths % 10 = 5
    THEN c.tenths \div 10
    ELSE RoundHalfEven(c.tenths, 10)

ActionOf_BuyBelowHold(c, timing_signal) ==
    IF AtLeast(c, 75) /\ timing_signal = "BUY" THEN "STRONG BUY"
    ELSE IF AtLeast(c, 65) THEN "BUY"
    ELSE IF AtLeast(c, 55)
         THEN (IF timing_signal = "BUY" THEN "ACCUMULATE" ELSE "HOLD")
    ELSE IF AtLeast(c, 40) THEN "BUY"
    ELSE IF AtLeast(c, 25) THEN "REDUCE"
    ELSE "SELL"

\* lines 475-504
ActionOf(c, timing_signal) ==
    IF AtLeast(c, 75) /\ timing_signal = "BUY" THEN "STRONG BUY"
    ELSE IF AtLeast(c, 65) THEN "BUY"
    ELSE IF AtLeast(c, 55)
         THEN (IF timing_signal = "BUY" THEN "ACCUMULATE" ELSE "HOLD")
    ELSE IF AtLeast(c, 40) THEN "HOLD"
    ELSE IF AtLeast(c, 25) THEN "REDUCE"
    ELSE "SELL"

\* lines 475-504
ConfidenceOf(action, c) ==
    IF action \in {"STRONG BUY", "SELL"} THEN "HIGH"
    ELSE IF action = "HOLD" /\ ~AtLeast(c, 55) THEN "LOW"
    ELSE "MEDIUM"

\* lines 457-516 (the reasoning text and key_factors echo are left out)
GenerateRecommendation(call) ==
    [action |-> ActionOf(CompositeOf(call), Get(call.timing, "signal", "NEUTRAL")),
     confidence |-> ConfidenceOf(ActionOf(CompositeOf(call),
                                          Get(call.timing, "signal", "NEUTRAL")),
                                 CompositeOf(call)),
     composite_score |-> RoundComposite(CompositeOf(call))]

\* scorer results as get_comprehensive_analysis hands them over (lines
\* 425-430); a failed fundamental analysis is {"error": ...} and has no
\* health_score, a timing dict may lack its signal
StabilityDicts == {[score |-> 15], [score |-> 53], [score |-> 90]}
TimingDicts ==
    {[score |-> t, signal |-> g] : t \in {25, 60, 99}, g \in {"BUY", "WAIT"}}
    \cup {[score |-> t] : t \in {25, 60, 99}}
RiskDicts == {[risk_score |-> 7], [risk_score |-> 50], [risk_score |-> 100]}
FundamentalDicts == {[health_score |-> 54], [health_score |-> 100], [error |-> "float"]}

RecCalls ==
    [stability : StabilityDicts, timing : TimingDicts,
     risk : RiskDicts, fundamental : FundamentalDicts]

\* two calls on arbitrary score dicts are pending
RecInit ==
    /\ rec_in \in RecCalls \X RecCalls
    /\ rec_out = <<>>
    /\ ConsensusIdle /\ TechIdle /\ ScoreIdle /\ RankIdle /\ BatchIdle /\ HoursIdle /\ RaceIdle /\ FanIdle /\ SigIdle /\ StaleIdle

\* the next pending call is made
RecCall ==
    /\ Len(rec_out) < Len(rec_in)
    /\ rec_out' = Append(rec_out, GenerateRecommendation(rec_in[Len(rec_out) + 1]))
    /\ UNCHANGED rec_in
    /\ UNCHANGED nonRecVars

NextRec == RecCall

(***************************************************************************)
(* Claims on the recommendation composer                                   *)
(***************************************************************************)
ActionRank(a) ==
    CASE a = "SELL" -> 0
      [] a = "REDUCE" -> 1
      [] a = "HOLD" -> 2
      [] a = "ACCUMULATE" -> 3
      [] a = "BUY" -> 4
      [] a = "STRONG BUY" -> 5

\* c1 <= c2 on the composites as the code holds them
CompositeLeq(c1, c2) ==
    \/ c1.tenths < c2.tenths
    \/ c1.tenths = c2.tenths /\ (c1.short \/ ~c2.short)

SameSignal ==
    Get(rec_in[1].timing, "signal", "NEUTRAL") = Get(rec_in[2].timing, "signal", "NEUTRAL")

\* C9: for two calls with the same timing signal, the call with the lower
\* (or equal) composite never gets the higher action in the order
\* SELL < REDUCE < HOLD < ACCUMULATE < BUY < STRONG BUY.
C9_ActionMonotonic ==
    (Len(rec_out) = 2 /\ SameSignal
        /\ CompositeLeq(CompositeOf(rec_in[1]), CompositeOf(rec_in[2])))
    => ActionRank(rec_out[1].action) <= ActionRank(rec_out[2].action)

\* two calls with signal BUY whose composites straddle the 75 threshold
C9_Witness ==
    /\ Len(rec_out) = 2
    /\ SameSignal
    /\ CompositeLeq(CompositeOf(rec_in[1]), CompositeOf(rec_in[2]))
    /\ rec_out[1].action = "BUY"
    /\ rec_out[2].action = "STRONG BUY"

\* the step function of the exact composite 0.3 s + 0.3 t + 0.2 (100 - r)
\* + 0.2 f, held in tenths
StepAction(tenths, timing_signal) ==
    IF tenths >= 750 /\ timing_signal = "BUY" THEN "STRONG BUY"
    ELSE IF tenths >= 650 THEN "BUY"
    ELSE IF tenths >= 550 /\ timing_signal = "BUY" THEN "ACCUMULATE"
    ELSE IF tenths >= 400 THEN "HOLD"
    ELSE IF tenths >= 250 THEN "REDUCE"
    ELSE "SELL"

\* C18: the action of every call is the step function of the composite
\* 0.3*stability + 0.3*timing + 0.2*(100 - risk) + 0.2*fundamental_health
\* (STRONG BUY iff >= 75 and signal BUY; else BUY iff >= 65; in [55,65)
\* ACCUMULATE iff signal BUY else HOLD; HOLD in [40,55); REDUCE in [25,40);
\* SELL below 25), and the composite lies in [0,100].
C18_ActionIsStepOfComposite ==
    \A i \in 1..Len(rec_out) :
        /\ CompositeOf(rec_in[i]).tenths \in 0..1000
        /\ rec_out[i].action =
              StepAction(CompositeOf(rec_in[i]).tenths,
                         Get(rec_in[i].timing, "signal", "NEUTRAL"))

SpecRec == RecInit /\ [][NextRec]_vars


(***************************************************************************)
(* Technical analyzer (analysis/technical_analyzer.py).  A history is the  *)
(* sequence of its bars' closes, oldest first, in whole rupees; moving     *)
(* averages are kept in paise.                                             *)
(***************************************************************************)
RECURSIVE SumCloses(_, _, _)
\* sum of history[lo..hi], by halves
SumCloses(history, lo, hi) ==
    IF lo > hi THEN 0
    ELSE IF lo = hi THEN history[lo]
    ELSE SumCloses(history, lo, (lo + hi) \div 2)
         + SumCloses(history, (lo + hi) \div 2 + 1, hi)

\* lines 76-86, one period: the mean of the last `period` closes against
\* the last close
MovingAverage(history, period) ==
    IF Len(history) >= period
    THEN [ma |-> Num(RoundHalfEven(
                     100 * SumCloses(history, Len(history) - period + 1, Len(history)),
                     period)),
          signal |-> IF history[Len(history)] * period
                        > SumCloses(history, Len(history) - period + 1, Len(history))
                     THEN "ABOVE" ELSE "BELOW"]
    ELSE [ma |-> NoneV, signal |-> "N/A"]

\* lines 72-88
CalcMovingAverages(history) ==
    [ma20 |-> MovingAverage(history, 20).ma,
     ma20_signal |-> MovingAverage(history, 20).signal,
     ma50 |-> MovingAverage(history, 50).ma,
     ma50_signal |-> MovingAverage(history, 50).signal,
     ma200 |-> MovingAverage(history, 200).ma,
     ma200_signal |-> MovingAverage(history, 200).signal]

\* lines 216-244: with 200 bars or more, line 221 calls .to_series() on the
\* expression pl.col("close").rolling_mean(...), which polars expressions do
\* not have; lines 224-244 are never reached
DetectTrends(history) ==
    IF Len(history) < 200
    THEN [kind |-> "return",
          value |-> [status |-> "INSUFFICIENT_DATA", days_available |-> Len(history)]]
    ELSE [kind |-> "raise", exc |-> "'Expr' object has no attribute 'to_series'"]

\* line 62 reads the name sr_data, which analyze binds nowhere
\* (_calc_support_resistance is never called)
SrData == [kind |-> "raise", exc |-> "name 'sr_data' is not defined"]

\* lines 14-70.  RSI, MACD, Bollinger bands, volume analysis and the signal
\* (lines 39-48, 54) are total on well-formed bars and are carried as the
\* marker "computed".
Analyze(history) ==
    IF Len(history) < 50
    THEN [error |-> "Insufficient data for technical analysis"]
    ELSE IF DetectTrends(history).kind = "raise"
    THEN [error |-> DetectTrends(history).exc]
    ELSE IF SrData.kind = "raise"
    THEN [error |-> SrData.exc]
    ELSE [current_price |-> 100 * history[Len(history)],
          moving_averages |-> CalcMovingAverages(history),
          rsi |-> "computed", macd |-> "computed",
          bollinger_bands |-> "computed",
          support_resistance |-> SrData.value,
          volume_analysis |-> "computed",
          trend_analysis |-> DetectTrends(history).value,
          signal |-> "computed"]

MaxBars == 201

\* close of bar i in a history of the given shape (a zero close is what a
\* provider's gap leaves; the other shapes are well-formed)
Close(shape, i) ==
    CASE shape = "flat" -> 100
      [] shape = "rising" -> 100 + i
      [] shape = "falling" -> 400 - i
      [] shape = "late_rally" -> IF i < 150 THEN 200 ELSE 100 + i
      [] shape = "choppy" -> IF i % 2 = 0 THEN 102 ELSE 100
      [] shape = "crash" -> IF i < 10 THEN 300 ELSE 100
      [] shape = "halted" -> IF i = 5 THEN 0 ELSE 100
      [] shape = "zeros" -> 0

Histories ==
    {[i \in 1..n |-> Close(shape, i)] :
        n \in 0..MaxBars, shape \in {"flat", "rising", "falling", "late_rally"}}

TechInit ==
    /\ tech_in \in Histories
    /\ tech_out = NoOutcome
    /\ trend_out = NoOutcome
    /\ ConsensusIdle /\ RecIdle /\ ScoreIdle /\ RankIdle /\ BatchIdle /\ HoursIdle /\ RaceIdle /\ FanIdle /\ SigIdle /\ StaleIdle

\* market_service.py 411: technical = self.technical_analyzer.analyze(history)
TechAnalyze ==
    /\ tech_out = NoOutcome
    /\ tech_out' = [kind |-> "return", value |-> Analyze(tech_in)]
    /\ UNCHANGED <<tech_in, trend_out>>
    /\ UNCHANGED nonTechVars

\* _detect_trends on the frame of the same bars
TechDetectTrends ==
    /\ trend_out = NoOutcome
    /\ trend_out' = DetectTrends(tech_in)
    /\ UNCHANGED <<tech_in, tech_out>>
    /\ UNCHANGED nonTechVars

NextTech == TechAnalyze \/ TechDetectTrends

(***************************************************************************)
(* Claims on the technical analyzer                                        *)
(***************************************************************************)
Analyzed == tech_out # NoOutcome

HasError == "error" \in DOMAIN tech_out.value

\* C7: below 50 bars analyze returns only the insufficient-data marker; for
\* a well-formed history of 50 bars or more it returns the full indicator
\* set without an error marker, MA200 being N/A below 200 bars.
C7_FullSetFromFiftyBars ==
    Analyzed =>
        IF Len(tech_in) < 50
        THEN tech_out.value = [error |-> "Insufficient data for technical analysis"]
        ELSE /\ ~HasError
             /\ {"moving_averages", "rsi", "macd", "bollinger_bands",
                 "support_resistance", "volume_analysis", "trend_analysis",
                 "signal"} \subseteq DOMAIN tech_out.value
             /\ (Len(tech_in) < 200 =>
                    tech_out.value.moving_averages.ma200_signal = "N/A")

\* mean of the 50 closes ending at bar `last` against the mean of the 200
\* closes ending there: -1 below, 0 equal, 1 above
Ma50VsMa200(last) ==
    IF 4 * SumCloses(tech_in, last - 49, last) > SumCloses(tech_in, last - 199, last)
    THEN 1
    ELSE IF 4 * SumCloses(tech_in, last - 49, last) < SumCloses(tech_in, last - 199, last)
    THEN 0 - 1
    ELSE 0

\* the label the rule gives from the previous and the current comparison
ClaimedTrendStatus(prev, curr) ==
    IF prev <= 0 /\ curr > 0 THEN "GOLDEN_CROSS_BULLISH"
    ELSE IF prev >= 0 /\ curr < 0 THEN "DEATH_CROSS_BEARISH"
    ELSE IF curr > 0 THEN "BULLISH_TREND"
    ELSE "BEARISH_TREND"

\* C8: with 200 bars or more _detect_trends returns the label the last two
\* (MA50, MA200) pairs determine, one of the four trend labels when there
\* are exactly 200 bars; INSUFFICIENT_DATA is returned only below 200 bars.
C8_TrendFromLastTwoPairs ==
    trend_out # NoOutcome =>
        /\ trend_out.kind = "return"
        /\ IF Len(tech_in) < 200
           THEN trend_out.value.status = "INSUFFICIENT_DATA"
           ELSE IF Len(tech_in) = 200
           THEN trend_out.value.status \in
                    {"GOLDEN_CROSS_BULLISH", "DEATH_CROSS_BEARISH",
                     "BULLISH_TREND", "BEARISH_TREND"}
           ELSE trend_out.value.status =
                    ClaimedTrendStatus(Ma50VsMa200(Len(tech_in) - 1),
                                       Ma50VsMa200(Len(tech_in)))

SpecTech == TechInit /\ [][NextTech]_vars


(***************************************************************************)
(* Rankers: SectorRecommender.get_top_picks (sector_recommender.py) and    *)
(* GeneralRecommender._apply_diversification (general_recommender.py).     *)
(* An analysis is what asyncio.gather hands back for one symbol: ExcResp,  *)
(* or DictResp of the dict get_comprehensive_analysis returned, with the   *)
(* "scores" and "analysis" levels flattened.  The symbol of the i-th       *)
(* analysis is i.                                                          *)
(***************************************************************************)

\* sector_recommender.py 131 and 137
Bonus(criteria, fundamental) ==
    IF criteria = "growth"
    THEN CASE Get(fundamental, "growth_potential", "LOW") = "HIGH" -> 30
           [] Get(fundamental, "growth_potential", "LOW") = "MODERATE" -> 15
           [] Get(fundamental, "growth_potential", "LOW") = "DECLINING" -> 0 - 20
           [] OTHER -> 0
    ELSE CASE Get(fundamental, "valuation", "FAIR") = "UNDERVALUED" -> 25
           [] Get(fundamental, "valuation", "FAIR") = "FAIR" -> 10
           [] Get(fundamental, "valuation", "FAIR") = "OVERVALUED" -> 0 - 15
           [] OTHER -> 0

\* sector_recommender.py 124-142: the composite in tenths
CriteriaComposite(criteria, stability, timing, risk, fundamental) ==
    CASE criteria = "stability" ->
            6 * stability + 3 * (100 - risk) + Get(fundamental, "health_score", 50)
      [] criteria = "growth" ->
            5 * timing + 3 * stability + 2 * (100 - risk)
            + 10 * Bonus(criteria, fundamental)
      [] criteria = "value" ->
            4 * Get(fundamental, "health_score", 50) + 3 * stability
            + 3 * (100 - risk) + 10 * Bonus(criteria, fundamental)
      [] OTHER -> 4 * stability + 3 * timing + 3 * (100 - risk)

\* sector_recommender.py 112-162 (the fields echoed from the analysis are
\* left out)
ScoreStock(symbol, analysis, criteria) ==
    [symbol |-> symbol,
     composite_score |->
        RoundHalfEven(CriteriaComposite(criteria,
                                        Get(analysis.stability, "score", 0),
                                        Get(analysis.timing, "score", 0),
                                        Get(analysis.risk, "risk_score", 50),
                                        analysis.fundamental), 10),
     stability_score |-> Get(analysis.stability, "score", 0)]

RECURSIVE ScoreAll(_, _, _)
\* sector_recommender.py 68-83: failed analyses are skipped
ScoreAll(analyses, i, criteria) ==
    IF i > Len(analyses) THEN <<>>
    ELSE IF analyses[i].kind = "exc" THEN ScoreAll(analyses, i + 1, criteria)
    ELSE IF "error" \in DOMAIN analyses[i].d THEN ScoreAll(analyses, i + 1, criteria)
    ELSE <<ScoreStock(i, analyses[i].d, criteria)>> \o ScoreAll(analyses, i + 1, criteria)

\* position of stocks[k] after a stable sort by descending composite score:
\* behind every higher score and behind every equal score that came earlier
SortedPosition(stocks, k) ==
    1 + Cardinality({j \in 1..Len(stocks) :
            \/ stocks[j].composite_score > stocks[k].composite_score
            \/ /\ stocks[j].composite_score = stocks[k].composite_score
               /\ j < k})

\* list.sort / sorted with key composite_score, reverse=True (stable)
SortByScoreDesc(stocks) ==
    [p \in 1..Len(stocks) |->
        stocks[CHOOSE k \in 1..Len(stocks) : SortedPosition(stocks, k) = p]]

\* seq[:n] for n >= 0
Take(seq, n) == SubSeq(seq, 1, IF n < Len(seq) THEN n ELSE Len(seq))

\* sector_recommender.py 85-106, given the scored results
TopPicksResult(request, results) ==
    IF results = <<>>
    THEN [error |-> "Could not analyze stocks in this sector",
          sector |-> request.matched_sector,
          attempted |-> Len(request.analyses)]
    ELSE [sector |-> request.matched_sector,
          top_picks |-> Take(SortByScoreDesc(results), request.limit),
          total_analyzed |-> Len(results),
          total_in_sector |-> Len(request.analyses),
          ranking_criteria |-> request.criteria]

\* sector_recommender.py 18-110, for a sector of at most 20 stocks
GetTopPicks(request) ==
    IF request.analyses = <<>>
    THEN [error |-> "No stocks found"]
    ELSE TopPicksResult(request, ScoreAll(request.analyses, 1, request.criteria))

\* number of stocks of the sector in a list
SectorCount(stocks, sector) ==
    Cardinality({i \in 1..Len(stocks) : stocks[i].sector = sector})

RECURSIVE Diversify_StopAtSkip(_, _, _, _)
\* the walk with `break` in place of `continue` at a full sector
Diversify_StopAtSkip(sorted_stocks, i, diversified, limit) ==
    IF i > Len(sorted_stocks) \/ Len(diversified) >= limit THEN diversified
    ELSE IF SectorCount(diversified, sorted_stocks[i].sector) >= 2 THEN diversified
    ELSE Diversify_StopAtSkip(sorted_stocks, i + 1,
                              Append(diversified, sorted_stocks[i]), limit)

RECURSIVE Diversify_CapThree(_, _, _, _)
Diversify_CapThree(sorted_stocks, i, diversified, limit) ==
    IF i > Len(sorted_stocks) \/ Len(diversified) >= limit THEN diversified
    ELSE IF SectorCount(diversified, sorted_stocks[i].sector) >= 3
    THEN Diversify_CapThree(sorted_stocks, i + 1, diversified, limit)
    ELSE Diversify_CapThree(sorted_stocks, i + 1,
                            Append(diversified, sorted_stocks[i]), limit)

RECURSIVE Diversify(_, _, _, _)
\* general_recommender.py 304-318
Diversify(sorted_stocks, i, diversified, limit) ==
    IF i > Len(sorted_stocks) \/ Len(diversified) >= limit THEN diversified
    ELSE IF SectorCount(diversified, sorted_stocks[i].sector) >= 2
    THEN Diversify(sorted_stocks, i + 1, diversified, limit)
    ELSE Diversify(sorted_stocks, i + 1, Append(diversified, sorted_stocks[i]), limit)

\* general_recommender.py 290-320
ApplyDiversification(scored_stocks, limit) ==
    Diversify(SortByScoreDesc(scored_stocks), 1, <<>>, limit)

\* general_recommender.py 374-380, on the dict get_comprehensive_analysis
\* returns (sector read from its "info" key)
ExtractSector(analysis) ==
    IF "info" \in DOMAIN analysis /\ "sector" \in DOMAIN analysis.info
       /\ analysis.info.sector \notin {"", "N/A"}
    THEN analysis.info.sector
    ELSE "GENERAL"

\* general_recommender.py 247-287 without preferences: the composite in
\* hundredths
ComprehensiveComposite(risk_profile, analysis) ==
    CASE risk_profile = "conservative" ->
            50 * Get(analysis.stability, "score", 0)
            + 30 * (100 - Get(analysis.risk, "risk_score", 50))
            + 20 * Get(analysis.fundamental, "health_score", 50)
      [] risk_profile = "aggressive" ->
            40 * (CASE Get(analysis.fundamental, "growth_potential", "LOW") = "HIGH" -> 80
                    [] Get(analysis.fundamental, "growth_potential", "LOW") = "MODERATE" -> 60
                    [] Get(analysis.fundamental, "growth_potential", "LOW") = "LOW" -> 40
                    [] Get(analysis.fundamental, "growth_potential", "LOW") = "DECLINING" -> 20
                    [] OTHER -> 50)
            + 30 * Get(analysis.timing, "score", 0)
            + 20 * Get(analysis.stability, "score", 0)
            + 10 * Get(analysis.fundamental, "health_score", 50)
      [] OTHER ->
            30 * Get(analysis.stability, "score", 0)
            + 25 * Get(analysis.timing, "score", 0)
            + 25 * (100 - Get(analysis.risk, "risk_score", 50))
            + 20 * Get(analysis.fundamental, "health_score", 50)

RECURSIVE ScoreRecommendations(_, _, _)
\* general_recommender.py 84-110: failed analyses are skipped
ScoreRecommendations(analyses, i, risk_profile) ==
    IF i > Len(analyses) THEN <<>>
    ELSE IF analyses[i].kind = "exc"
    THEN ScoreRecommendations(analyses, i + 1, risk_profile)
    ELSE IF "error" \in DOMAIN analyses[i].d
    THEN ScoreRecommendations(analyses, i + 1, risk_profile)
    ELSE <<[symbol |-> i,
            sector |-> ExtractSector(analyses[i].d),
            composite_score |->
                IF ComprehensiveComposite(risk_profile, analyses[i].d) < 10000
                THEN ComprehensiveComposite(risk_profile, analyses[i].d)
                ELSE 10000]>>
         \o ScoreRecommendations(analyses, i + 1, risk_profile)

\* general_recommender.py 121-148: _calculate_allocations divides by
\* len(stocks) for the conservative profile (line 336); the ZeroDivisionError
\* ends in the except clause of get_recommendations
AllocationsResult(request, diversified_picks) ==
    IF request.risk_profile = "conservative" /\ diversified_picks = <<>>
    THEN [recommendations |-> <<>>, total_stocks |-> 0,
          error |-> "An error occurred: division by zero"]
    ELSE [recommendations |-> diversified_picks,
          total_stocks |-> Len(diversified_picks)]

\* general_recommender.py 112-122, given the scored stocks
RecommendationsResult(request, scored_stocks) ==
    IF scored_stocks = <<>>
    THEN [recommendations |-> <<>>, total_stocks |-> 0,
          error |-> "Unable to analyze stocks. Please try again later."]
    ELSE AllocationsResult(request,
                           ApplyDiversification(scored_stocks, request.limit))

\* GeneralRecommender.get_recommendations, general_recommender.py 27-148,
\* from the analyses of the affordable stocks
GetRecommendations(request) ==
    IF request.analyses = <<>>
    THEN [recommendations |-> <<>>, total_stocks |-> 0,
          error |-> "No stocks found within your budget"]
    ELSE RecommendationsResult(request,
                               ScoreRecommendations(request.analyses, 1,
                                                    request.risk_profile))

\* general_recommender.py 341: `float(stock["price"]) if stock["price"]
\* else 1.0`, in paise
AllocPrice(stock) == IF stock.price = 0 THEN 100 ELSE stock.price

\* int(amount / price) if price > 0 else 0 (lines 342, 359, 370)
SuggestedShares(amount, price) == IF price > 0 THEN amount \div price ELSE 0

RECURSIVE TotalScore(_)
\* line 362
TotalScore(stocks) ==
    IF stocks = <<>> THEN 0
    ELSE stocks[1].composite_score + TotalScore(Tail(stocks))

\* lines 346-355: round(budget * 0.8 / 3, 2) for the first three picks,
\* round(budget * 0.2 / max(len(stocks) - 3, 1), 2) for the others, in paise
AggressiveAmount(stocks, budget, i) ==
    IF i <= 3 THEN RoundHalfEven(budget * 8, 30)
    ELSE RoundHalfEven(budget * 2, 10 * (IF Len(stocks) - 3 > 1 THEN Len(stocks) - 3 ELSE 1))

\* lines 362-366: round(budget * weight, 2), weight = score / total_score,
\* or 1 / len(stocks) when the scores sum to 0
BalancedAmount(stocks, budget, i) ==
    IF TotalScore(stocks) > 0
    THEN RoundHalfEven(budget * stocks[i].composite_score, TotalScore(stocks))
    ELSE RoundHalfEven(budget, Len(stocks))

\* one pick with its allocation (allocation_percent is left out)
Allocated(stock, amount, shares) ==
    [composite_score |-> stock.composite_score, price |-> stock.price,
     allocation_amount |-> amount, suggested_shares |-> shares]

\* GeneralRecommender._calculate_allocations, lines 322-372; budget and
\* amounts in paise.  The conservative branch computes the shares from the
\* unrounded budget / len(stocks).
CalculateAllocations(stocks, budget, risk_profile) ==
    IF risk_profile = "conservative"
    THEN IF stocks = <<>> THEN [kind |-> "raise", exc |-> "ZeroDivisionError"]
         ELSE [kind |-> "return",
               value |-> [i \in 1..Len(stocks) |->
                    Allocated(stocks[i], RoundHalfEven(budget, Len(stocks)),
                              SuggestedShares(budget,
                                              Len(stocks) * AllocPrice(stocks[i])))]]
    ELSE IF risk_profile = "aggressive"
    THEN [kind |-> "return",
          value |-> [i \in 1..Len(stocks) |->
               Allocated(stocks[i], AggressiveAmount(stocks, budget, i),
                         SuggestedShares(AggressiveAmount(stocks, budget, i),
                                         AllocPrice(stocks[i])))]]
    ELSE [kind |-> "return",
          value |-> [i \in 1..Len(stocks) |->
               Allocated(stocks[i], BalancedAmount(stocks, budget, i),
                         SuggestedShares(BalancedAmount(stocks, budget, i),
                                         AllocPrice(stocks[i])))]]

\* comparison_engine.py 31-36: the analyses that enter the comparison
ValidAnalyses(analyses) ==
    {i \in 1..Len(analyses) :
        analyses[i].kind = "dict" /\ "error" \notin DOMAIN analyses[i].d}

\* ComparisonEngine.compare_stocks, comparison_engine.py 16-89 (per symbol
\* only the composite is kept)
CompareStocks(request) ==
    IF ValidAnalyses(request.analyses) = {}
    THEN [error |-> "Could not compare stocks"]
    ELSE [comparison |->
            [i \in ValidAnalyses(request.analyses) |->
                [stability_score |-> Get(request.analyses[i].d.stability, "score", 0),
                 risk_score |-> Get(request.analyses[i].d.risk, "risk_score", 50)]]]

MaxAnalyses == 3
MaxScored == 4
MaxLimit == 3

\* what one symbol's analysis can come back as
AnalysisOutcomes ==
    {ExcResp,
     DictResp([error |-> "Stock not found"]),
     DictResp([stability |-> [score |-> 90], timing |-> [score |-> 60],
               risk |-> [risk_score |-> 50],
               fundamental |-> [health_score |-> 100, valuation |-> "UNDERVALUED",
                                growth_potential |-> "HIGH"]]),
     DictResp([stability |-> [score |-> 53], timing |-> [score |-> 25],
               risk |-> [risk_score |-> 50],
               fundamental |-> [health_score |-> 54, valuation |-> "FAIR",
                                growth_potential |-> "LOW"]]),
     DictResp([stability |-> [score |-> 53], timing |-> [score |-> 99],
               risk |-> [risk_score |-> 7],
               fundamental |-> [error |-> "float"]])}

RankSectors == {"IT", "BANK"}

SectorRequests ==
    [kind : {"sector"}, matched_sector : {"IT"},
     analyses : UNION {[1..n -> AnalysisOutcomes] : n \in 0..MaxAnalyses},
     criteria : {"balanced", "stability", "growth", "value"},
     limit : 1..MaxLimit]

GeneralRequests ==
    [kind : {"general"},
     scored_stocks :
        UNION {{[i \in 1..n |-> [symbol |-> i, sector |-> f[i][1],
                                 composite_score |-> f[i][2]]] :
                    f \in [1..n -> RankSectors \X {60, 80}]} : n \in 1..MaxScored},
     limit : 1..MaxLimit]

\* limit is an unvalidated Optional[int] of the request body
\* (api_v1/endpoints/recommendations.py 19)
RecommendRequests ==
    [kind : {"recommend"},
     analyses : UNION {[1..n -> AnalysisOutcomes] : n \in 0..MaxAnalyses},
     risk_profile : {"conservative", "balanced", "aggressive"},
     limit : 0..MaxLimit]

\* the picks _apply_diversification hands over: sorted by descending
\* composite (hundredths), prices in paise (0: no price was parsed)
MaxPicks == 5
PickStocks ==
    UNION {{f \in [1..n -> [composite_score : {0, 6000, 8050}, price : {0, 3333}]] :
                \A i \in 1..(n - 1) : f[i].composite_score >= f[i + 1].composite_score} :
           n \in 0..MaxPicks}

AllocateRequests ==
    [kind : {"allocate"}, stocks : PickStocks,
     budget : {10001, 50000},
     risk_profile : {"conservative", "balanced", "aggressive"}]

CompareRequests ==
    [kind : {"compare"},
     analyses : UNION {[1..n -> AnalysisOutcomes] : n \in 0..MaxAnalyses}]

RankInit ==
    /\ rank_in \in SectorRequests \cup GeneralRequests \cup RecommendRequests
                   \cup CompareRequests \cup AllocateRequests
    /\ rank_out = NoOutcome
    /\ ConsensusIdle /\ RecIdle /\ TechIdle /\ ScoreIdle /\ BatchIdle /\ HoursIdle /\ RaceIdle /\ FanIdle /\ SigIdle /\ StaleIdle

\* a get_top_picks request is served
RankGetTopPicks ==
    /\ rank_out = NoOutcome
    /\ rank_in.kind = "sector"
    /\ rank_out' = [kind |-> "return", value |-> GetTopPicks(rank_in)]
    /\ UNCHANGED rank_in
    /\ UNCHANGED nonRankVars

\* general_recommender.py 122
RankApplyDiversification ==
    /\ rank_out = NoOutcome
    /\ rank_in.kind = "general"
    /\ rank_out' = [kind |-> "return",
                    value |-> ApplyDiversification(rank_in.scored_stocks, rank_in.limit)]
    /\ UNCHANGED rank_in
    /\ UNCHANGED nonRankVars

\* a get_recommendations request is served
RankGetRecommendations ==
    /\ rank_out = NoOutcome
    /\ rank_in.kind = "recommend"
    /\ rank_out' = [kind |-> "return", value |-> GetRecommendations(rank_in)]
    /\ UNCHANGED rank_in
    /\ UNCHANGED nonRankVars

\* a compare_stocks request is served
RankCompareStocks ==
    /\ rank_out = NoOutcome
    /\ rank_in.kind = "compare"
    /\ rank_out' = [kind |-> "return", value |-> CompareStocks(rank_in)]
    /\ UNCHANGED rank_in
    /\ UNCHANGED nonRankVars

\* general_recommender.py 125
RankCalculateAllocations ==
    /\ rank_out = NoOutcome
    /\ rank_in.kind = "allocate"
    /\ rank_out' = CalculateAllocations(rank_in.stocks, rank_in.budget,
                                        rank_in.risk_profile)
    /\ UNCHANGED rank_in
    /\ UNCHANGED nonRankVars

NextRank ==
    \/ RankGetTopPicks
    \/ RankApplyDiversification
    \/ RankGetRecommendations
    \/ RankCompareStocks
    \/ RankCalculateAllocations

(***************************************************************************)
(* Claims on the rankers                                                   *)
(***************************************************************************)
Ranked == rank_out # NoOutcome

\* the pick list of the request served
Picks ==
    IF rank_in.kind = "general" THEN rank_out.value
    ELSE IF "top_picks" \in DOMAIN rank_out.value THEN rank_out.value.top_picks
    ELSE <<>>

\* every stock of a sector request belongs to the matched sector
PickCount(sector) ==
    IF rank_in.kind = "general" THEN SectorCount(Picks, sector)
    ELSE IF sector = rank_in.matched_sector THEN Len(Picks) ELSE 0

\* successfully analysed stocks of the sector in the universe
PoolCount(sector) ==
    IF rank_in.kind = "general" THEN SectorCount(rank_in.scored_stocks, sector)
    ELSE IF sector = rank_in.matched_sector /\ "total_analyzed" \in DOMAIN rank_out.value
    THEN rank_out.value.total_analyzed
    ELSE 0

\* the most picks the universe allows with at most 2 per sector
CapFill ==
    SumOver(RankSectors,
            [t \in RankSectors |-> IF PoolCount(t) < 2 THEN PoolCount(t) ELSE 2])

BatchRanked == Ranked /\ rank_in.kind \in {"sector", "recommend", "compare"}

\* number of symbols whose analysis came back without exception or error
\* marker
Succeeded == Cardinality(ValidAnalyses(rank_in.analyses))

\* symbols the answer ranks
RankedSymbols ==
    CASE "top_picks" \in DOMAIN rank_out.value ->
            {rank_out.value.top_picks[i].symbol :
                i \in 1..Len(rank_out.value.top_picks)}
      [] "recommendations" \in DOMAIN rank_out.value ->
            {rank_out.value.recommendations[i].symbol :
                i \in 1..Len(rank_out.value.recommendations)}
      [] "comparison" \in DOMAIN rank_out.value -> DOMAIN rank_out.value.comparison
      [] OTHER -> {}

\* C13: a batch ranker skips the symbols whose analysis raised or returned
\* an error marker and ranks the others; it returns an error result if and
\* only if no symbol of the batch succeeded, and never raises.
C13_ErrorIffNoneSucceeds ==
    BatchRanked =>
        /\ rank_out.kind = "return"
        /\ RankedSymbols \subseteq ValidAnalyses(rank_in.analyses)
        /\ "error" \in DOMAIN rank_out.value <=> Succeeded = 0

\* _apply_diversification has returned its picks
Diversified == Ranked /\ rank_in.kind = "general"

\* rank of stock k of the request in the descending order of composites
RankOf(k) == SortedPosition(rank_in.scored_stocks, k)

Selected == {rank_out.value[i].symbol : i \in 1..Len(rank_out.value)}

\* C26: the picks of _apply_diversification are at most `limit`, at most 2
\* per sector and in descending composite order; a stock skipped above a
\* selected one has 2 selected stocks of its sector ranked before it; and
\* the walk goes on until the limit is filled or the list is exhausted (the
\* result has min(limit, sum over sectors of min(count, 2)) picks).
C26_GreedyDiversification ==
    Diversified =>
        /\ Len(rank_out.value) <= rank_in.limit
        /\ \A t \in RankSectors : SectorCount(rank_out.value, t) <= 2
        /\ \A i \in 1..(Len(rank_out.value) - 1) :
              /\ rank_out.value[i].composite_score >= rank_out.value[i + 1].composite_score
              /\ RankOf(rank_out.value[i].symbol) < RankOf(rank_out.value[i + 1].symbol)
        /\ \A k \in 1..Len(rank_in.scored_stocks) :
              (k \notin Selected /\ \E m \in Selected : RankOf(k) < RankOf(m)) =>
                  Cardinality({m \in Selected :
                                  /\ rank_in.scored_stocks[m].sector
                                        = rank_in.scored_stocks[k].sector
                                  /\ RankOf(m) < RankOf(k)}) = 2
        /\ Len(rank_out.value) = (IF rank_in.limit < CapFill THEN rank_in.limit ELSE CapFill)

\* three IT stocks rank above a BANK stock: the third IT stock is skipped
\* and the BANK stock fills the limit of 3
C26_Witness ==
    /\ Diversified
    /\ rank_in.limit = 3
    /\ Len(rank_in.scored_stocks) = 4
    /\ \A k \in 1..3 : rank_in.scored_stocks[k].sector = "IT"
                         /\ rank_in.scored_stocks[k].composite_score = 80
    /\ rank_in.scored_stocks[4].sector = "BANK"
    /\ rank_in.scored_stocks[4].composite_score = 60
    /\ Selected = {1, 2, 4}

\* _calculate_allocations returned for a non-empty pick list
AllocationsMade ==
    /\ Ranked /\ rank_in.kind = "allocate"
    /\ rank_out.kind = "return" /\ rank_in.stocks # <<>>

RECURSIVE SumAmounts(_)
SumAmounts(stocks) ==
    IF stocks = <<>> THEN 0
    ELSE stocks[1].allocation_amount + SumAmounts(Tail(stocks))

\* C22: under each of the three policies and for every non-empty pick
\* list, the allocation amounts sum to the budget up to the rounding of each
\* amount (half a paisa per pick), also with fewer than four picks, and each
\* pick's suggested_shares is the floor of its allocation over its price.
C22_WholeBudgetDistributed ==
    AllocationsMade =>
        /\ 2 * (SumAmounts(rank_out.value) - rank_in.budget)
              \in (0 - Len(rank_in.stocks))..Len(rank_in.stocks)
        /\ \A i \in 1..Len(rank_out.value) :
              rank_out.value[i].price > 0 =>
                  rank_out.value[i].suggested_shares
                      = rank_out.value[i].allocation_amount \div rank_out.value[i].price

SpecRank == RankInit /\ [][NextRank]_vars


(***************************************************************************)
(* Scorers (scoring/*.py) and the fundamental analyzer.  Returns and       *)
(* drawdowns are kept in thousandths, the annualised volatility in tenths  *)
(* of a percent; a fundamentals dict holds tagged values, numbers in       *)
(* thousandths (marketCap in thousandths of 10^10).                        *)
(***************************************************************************)

\* float(x)
PyFloat(x) == IF x.t = "str" THEN FloatOfStr(x.s) ELSE FloatOfValue(x)

\* float(fundamentals.get(k, ...)) raises for none of the keys (a default is
\* always a number)
Floatable(fundamentals, keys) ==
    \A k \in keys : PyFloat(Get(fundamentals, k, Num(0))).ok

\* float(fundamentals.get(key, default)), in thousandths
Val(fundamentals, key, default) == PyFloat(Get(fundamentals, key, Num(default))).v

\* (np.diff(closes) / closes[:-1])[i] in ten-thousandths, to the nearest
ReturnAt(history, i) ==
    (2 * (history[i + 1] - history[i]) * 10000 + history[i]) \div (2 * history[i])

\* the return, or its square
Return(history, i, squared) ==
    IF squared THEN ReturnAt(history, i) * ReturnAt(history, i)
    ELSE ReturnAt(history, i)

RECURSIVE SumReturns(_, _, _, _)
\* sum of the returns lo..hi (or of their squares), by halves
SumReturns(history, lo, hi, squared) ==
    IF lo > hi THEN 0
    ELSE IF lo = hi THEN Return(history, lo, squared)
    ELSE SumReturns(history, lo, (lo + hi) \div 2, squared)
         + SumReturns(history, (lo + hi) \div 2 + 1, hi, squared)

\* np.std(returns)^2 (population variance, in units of 10^-8) from the
\* number of returns, their sum and the sum of their squares
Variance(m, s1, s2) == (s2 - (s1 * s1) \div m) \div m

RECURSIVE Isqrt(_, _, _)
\* integer square root of x, searched in lo..hi by bisection
Isqrt(x, lo, hi) ==
    IF lo = hi THEN lo
    ELSE IF ((lo + hi + 1) \div 2) * ((lo + hi + 1) \div 2) <= x
         THEN Isqrt(x, (lo + hi + 1) \div 2, hi)
         ELSE Isqrt(x, lo, (lo + hi + 1) \div 2 - 1)

\* np.std(returns) * np.sqrt(252) * 100 in hundredths of a percent,
\* saturated at 100% (both volatility scores are constant from 50% on)
AnnualVolatility(variance) ==
    IF variance >= 396826 THEN 10000
    ELSE Isqrt(variance * 252, 0, 10000)

\* stability_scorer.py 50-52, risk_profiler.py 45-47: np.std(returns) *
\* np.sqrt(252) * 100; a zero close makes a return inf or nan and the
\* standard deviation nan
Volatility(history) ==
    IF \E i \in 1..(Len(history) - 1) : history[i] = 0
    THEN [nan |-> TRUE]
    ELSE [nan |-> FALSE,
          v |-> AnnualVolatility(
                    Variance(Len(history) - 1,
                             SumReturns(history, 1, Len(history) - 1, FALSE),
                             SumReturns(history, 1, Len(history) - 1, TRUE)))]

\* stability_scorer.py 46-58; min(30, nan) is 30
CalcVolatilityScore(history) ==
    IF Len(history) < 20 THEN 15
    ELSE IF Volatility(history).nan THEN 30
    ELSE IF Volatility(history).v <= 1000 THEN 30
    ELSE IF Volatility(history).v >= 5000 THEN 0
    ELSE RoundHalfEven(15000 - 3 * Volatility(history).v, 400)

\* stability_scorer.py 60-85, given that no float() raises
CalcFundamentalScore(fundamentals) ==
    (IF ~Truthy(Get(fundamentals, "debtToEquity", NoneV)) THEN 4
     ELSE IF Val(fundamentals, "debtToEquity", 100000) < 50000 THEN 10
     ELSE IF Val(fundamentals, "debtToEquity", 100000) < 100000 THEN 7
     ELSE IF Val(fundamentals, "debtToEquity", 100000) < 200000 THEN 4
     ELSE 0)
    + (IF Val(fundamentals, "currentRatio", 1000) > 2000 THEN 10
       ELSE IF Val(fundamentals, "currentRatio", 1000) > 1500 THEN 7
       ELSE IF Val(fundamentals, "currentRatio", 1000) > 1000 THEN 5
       ELSE 0)
    + (IF Val(fundamentals, "returnOnEquity", 0) > 200 THEN 10
       ELSE IF Val(fundamentals, "returnOnEquity", 0) > 150 THEN 8
       ELSE IF Val(fundamentals, "returnOnEquity", 0) > 100 THEN 5
       ELSE 0)

\* stability_scorer.py 87-103
CalcMarketScore(fundamentals) ==
    (IF Val(fundamentals, "marketCap", 0) > 100000 THEN 10
     ELSE IF Val(fundamentals, "marketCap", 0) > 50000 THEN 7
     ELSE IF Val(fundamentals, "marketCap", 0) > 10000 THEN 4
     ELSE 0) + 5

\* stability_scorer.py 105-113
CalcGrowthScore(fundamentals) ==
    IF Val(fundamentals, "revenueGrowth", 0) > 150 THEN 15 ELSE 10

\* stability_scorer.py 115-119
InterpretScore(score) ==
    IF score >= 80 THEN "HIGH_STABILITY"
    ELSE IF score >= 60 THEN "MEDIUM_STABILITY"
    ELSE IF score >= 40 THEN "MODERATE_STABILITY"
    ELSE "LOW_STABILITY"

\* stability_scorer.py 30-41
StabilityResult(total_score) ==
    [score |-> total_score, interpretation |-> InterpretScore(total_score)]

\* StabilityScoreEngine.calculate_score, stability_scorer.py 12-44: line 65
\* calls float() on debtToEquity only when it is truthy
StabilityCalculateScore(market_data) ==
    IF /\ (Truthy(Get(market_data.fundamentals, "debtToEquity", NoneV))
              => Floatable(market_data.fundamentals, {"debtToEquity"}))
       /\ Floatable(market_data.fundamentals,
                    {"currentRatio", "returnOnEquity", "marketCap", "revenueGrowth"})
    THEN StabilityResult(CalcVolatilityScore(market_data.history)
                         + CalcFundamentalScore(market_data.fundamentals)
                         + CalcMarketScore(market_data.fundamentals)
                         + CalcGrowthScore(market_data.fundamentals))
    ELSE [score |-> 0, error |-> "float"]

RECURSIVE SumDeltas(_, _, _)
\* sum over bars i..Len of the gains (or of the losses) of close.diff()
SumDeltas(history, i, gains) ==
    IF i > Len(history) THEN 0
    ELSE (IF gains /\ history[i] > history[i - 1] THEN history[i] - history[i - 1]
          ELSE IF ~gains /\ history[i] < history[i - 1] THEN history[i - 1] - history[i]
          ELSE 0)
         + SumDeltas(history, i + 1, gains)

\* timing_scorer.py 74-83, from the 14-bar sums of gains and losses:
\* rsi = 100 * gain / (gain + loss), nan when both are 0
RsiPoints(gain, loss) ==
    IF gain = 0 /\ loss = 0 THEN 0
    ELSE IF 100 * gain <= 50 * (gain + loss) THEN 10
    ELSE IF 100 * gain > 70 * (gain + loss) THEN 0 - 5
    ELSE 0

\* min(hi, max(lo, x))
Clamp(lo, hi, x) == IF x < lo THEN lo ELSE IF x > hi THEN hi ELSE x

\* timing_scorer.py 47-92
CalcTechnicals(history) ==
    IF Len(history) < 200 THEN 20
    ELSE Clamp(0, 40,
               (IF history[Len(history)] * 50
                      > SumCloses(history, Len(history) - 49, Len(history))
                THEN 15 ELSE 0)
               + (IF history[Len(history)] * 200
                        > SumCloses(history, Len(history) - 199, Len(history))
                  THEN 15 ELSE 0)
               + RsiPoints(SumDeltas(history, Len(history) - 13, TRUE),
                           SumDeltas(history, Len(history) - 13, FALSE)))

\* timing_scorer.py 94-110
CalcValuation(fundamentals) ==
    Clamp(0, 30,
          15
          + (IF 0 < Val(fundamentals, "trailingPE", 0)
                   /\ Val(fundamentals, "trailingPE", 0) < 20000 THEN 10
             ELSE IF Val(fundamentals, "trailingPE", 0) > 50000 THEN 0 - 5
             ELSE 0)
          + (IF 0 < Val(fundamentals, "priceToBook", 0)
                   /\ Val(fundamentals, "priceToBook", 0) < 3000 THEN 5
             ELSE 0))

\* timing_scorer.py 112-124: the return over the last 20 bars is positive
\* (inf when the base close is 0 and the last close is not)
CalcMomentum(history) ==
    IF Len(history) < 30 THEN 10
    ELSE IF history[Len(history)] > history[Len(history) - 19] THEN 20
    ELSE 10

\* timing_scorer.py 30-42 and 126-129
TimingResult(total_score) ==
    [score |-> total_score,
     signal |-> IF total_score >= 70 THEN "BUY"
                ELSE IF total_score >= 40 THEN "NEUTRAL" ELSE "WAIT",
     confidence |-> IF total_score > 70 \/ total_score < 30 THEN "HIGH" ELSE "MEDIUM"]

\* TimingScoreEngine.calculate_score, timing_scorer.py 13-45
TimingCalculateScore(market_data) ==
    IF Floatable(market_data.fundamentals, {"trailingPE", "priceToBook"})
    THEN TimingResult(CalcTechnicals(market_data.history)
                      + CalcValuation(market_data.fundamentals)
                      + CalcMomentum(market_data.history) + 5)
    ELSE [score |-> 0, signal |-> "UNKNOWN", error |-> "float"]

VolatilityRisk_Uncapped(history) ==
    IF Len(history) < 20 THEN 20
    ELSE IF Volatility(history).nan THEN 40
    ELSE RoundHalfEven(Volatility(history).v, 100)

\* risk_profiler.py 42-51; min(40, nan) is 40
VolatilityRisk(history) ==
    IF Len(history) < 20 THEN 20
    ELSE IF Volatility(history).nan THEN 40
    ELSE IF Volatility(history).v >= 4000 THEN 40
    ELSE RoundHalfEven(Volatility(history).v, 100)

\* the largest element of a non-empty set of numbers
SetMax(S) == CHOOSE m \in S : \A x \in S : m >= x

RECURSIVE MaxDrawdown(_, _, _, _)
\* risk_profiler.py 59-61: the deepest (close - cummax) / cummax over bars
\* lo..hi, as a positive number of thousandths, given the cummax before bar
\* lo; bars whose cummax is 0 are nan and skipped by min()
MaxDrawdown(history, lo, hi, rolling_max) ==
    IF lo = hi
    THEN (IF history[lo] >= rolling_max THEN 0
          ELSE ((rolling_max - history[lo]) * 1000) \div rolling_max)
    ELSE SetMax({MaxDrawdown(history, lo, (lo + hi) \div 2, rolling_max),
                 MaxDrawdown(history, (lo + hi) \div 2 + 1, hi,
                             SetMax({rolling_max}
                                    \cup {history[i] : i \in lo..((lo + hi) \div 2)}))})

\* risk_profiler.py 53-66; with every drawdown nan, min(30, nan) is 30
DrawdownRisk(history) ==
    IF history = <<>> THEN 15
    ELSE IF \A i \in 1..Len(history) : history[i] = 0 THEN 30
    ELSE IF MaxDrawdown(history, 1, Len(history), 0) >= 500 THEN 30
    ELSE RoundHalfEven(3 * MaxDrawdown(history, 1, Len(history), 0), 50)

\* risk_profiler.py 68-88
FundamentalRisk(fundamentals) ==
    (IF Val(fundamentals, "debtToEquity", 0) > 200000 THEN 15
     ELSE IF Val(fundamentals, "debtToEquity", 0) > 100000 THEN 8
     ELSE 0)
    + (IF Val(fundamentals, "beta", 1000) > 1500 THEN 15
       ELSE IF Val(fundamentals, "beta", 1000) > 1200 THEN 8
       ELSE 0)

\* risk_profiler.py 27-37 and 90-93
RiskResult(total_risk) ==
    [risk_score |-> total_risk,
     risk_level |-> IF total_risk >= 60 THEN "HIGH"
                    ELSE IF total_risk >= 30 THEN "MEDIUM" ELSE "LOW"]

\* RiskProfileEngine.calculate_risk, risk_profiler.py 13-40
CalculateRisk(market_data) ==
    IF Floatable(market_data.fundamentals, {"debtToEquity", "beta"})
    THEN RiskResult(VolatilityRisk(market_data.history)
                    + DrawdownRisk(market_data.history)
                    + FundamentalRisk(market_data.fundamentals))
    ELSE [risk_score |-> 50, risk_level |-> "UNKNOWN", error |-> "float"]

\* fundamental_analyzer.py 62-102
CalcHealthScore(pe, pb, de, roe, current_ratio) ==
    Clamp(0, 100,
          40
          + (IF 0 < pe /\ pe < 15000 THEN 15
             ELSE IF 15000 <= pe /\ pe < 25000 THEN 10
             ELSE IF 25000 <= pe /\ pe < 40000 THEN 5 ELSE 0)
          + (IF 0 < pb /\ pb < 2000 THEN 10
             ELSE IF 2000 <= pb /\ pb < 4000 THEN 5 ELSE 0)
          + (IF de < 50000 THEN 15
             ELSE IF de < 100000 THEN 10
             ELSE IF de < 200000 THEN 5 ELSE 0)
          + (IF roe > 200 THEN 10
             ELSE IF roe > 150 THEN 7
             ELSE IF roe > 100 THEN 4 ELSE 0)
          + (IF current_ratio > 1500 THEN 10
             ELSE IF current_ratio >= 1000 THEN 5 ELSE 0))

\* fundamental_analyzer.py 103-124 (level only)
AssessValuation(pe, pb) ==
    IF pe < 15000 /\ pb < 2000 THEN "UNDERVALUED"
    ELSE IF pe > 40000 \/ pb > 5000 THEN "OVERVALUED"
    ELSE "FAIR"

\* fundamental_analyzer.py 125-137 (level only): de as debtToEquity, roe
\* as returnOnEquity and margin as profitMargin before lines 19-21 scale
\* them (de < 0.5 is debtToEquity < 50, roe > 15 is returnOnEquity > 0.15)
AssessFinancialHealth(de, roe, margin, current_ratio) ==
    IF de < 50000 /\ roe > 150 /\ margin > 100 /\ current_ratio >= 1000
    THEN "STRONG"
    ELSE IF \/ de > 200000
            \/ roe < 50
            \/ margin < 0
            \/ (current_ratio < 800 /\ current_ratio > 0)
    THEN "WEAK"
    ELSE "MODERATE"

\* fundamental_analyzer.py 139-154 (level only), on revenueGrowth unscaled
AssessGrowth(revenue_growth) ==
    IF revenue_growth > 200 THEN "HIGH"
    ELSE IF revenue_growth > 100 THEN "MODERATE"
    ELSE IF revenue_growth > 0 THEN "LOW"
    ELSE "DECLINING"

\* FundamentalAnalyzer.analyze, fundamental_analyzer.py 11-60: lines 17-26
\* and 47 call float() on each ratio, line 105 on forwardPE when truthy; any
\* failure leaves only the error marker (key_metrics are left out)
FundamentalAnalyze(fundamentals) ==
    IF Floatable(fundamentals,
                 {"trailingPE", "priceToBook", "debtToEquity", "returnOnEquity",
                  "profitMargin", "revenueGrowth", "currentRatio", "quickRatio",
                  "forwardPE"})
    THEN [health_score |-> CalcHealthScore(Val(fundamentals, "trailingPE", 0),
                                           Val(fundamentals, "priceToBook", 0),
                                           Val(fundamentals, "debtToEquity", 0),
                                           Val(fundamentals, "returnOnEquity", 0),
                                           Val(fundamentals, "currentRatio", 0)),
          valuation |-> AssessValuation(Val(fundamentals, "trailingPE", 0),
                                        Val(fundamentals, "priceToBook", 0)),
          financial_health |->
              AssessFinancialHealth(Val(fundamentals, "debtToEquity", 0),
                                    Val(fundamentals, "returnOnEquity", 0),
                                    Val(fundamentals, "profitMargin", 0),
                                    Val(fundamentals, "currentRatio", 0)),
          growth_potential |-> AssessGrowth(Val(fundamentals, "revenueGrowth", 0))]
    ELSE [error |-> "float"]

\* bar counts around the scorers' thresholds (20, 30 and 200 bars)
ScoreLengths == {0, 19, 20, 29, 30, 199, 200}

ScoreHistories ==
    {[i \in 1..n |-> Close(shape, i)] :
        n \in ScoreLengths,
        shape \in {"flat", "rising", "falling", "late_rally", "choppy", "crash",
                   "halted", "zeros"}}

\* fundamentals as the providers hand them over: complete, partial, empty,
\* numbers as text, None for a missing ratio, "N/A" for an unknown one
FundamentalsDicts ==
    {<<>>,
     [trailingPE |-> Num(12000), priceToBook |-> Num(1500),
      debtToEquity |-> Num(30000), returnOnEquity |-> Num(220),
      profitMargin |-> Num(150), revenueGrowth |-> Num(200),
      currentRatio |-> Num(2100), marketCap |-> Num(200000),
      beta |-> Num(900), forwardPE |-> Num(11000)],
     [trailingPE |-> Num(12000), priceToBook |-> Num(1500),
      debtToEquity |-> Num(30000), returnOnEquity |-> Num(220),
      profitMargin |-> Num(150), revenueGrowth |-> Num(200),
      currentRatio |-> Num(2100), marketCap |-> Num(200000),
      beta |-> Num(900), forwardPE |-> NoneV],
     [trailingPE |-> Num(12000), priceToBook |-> Num(1500),
      debtToEquity |-> Num(30000), returnOnEquity |-> Num(220),
      profitMargin |-> Num(150)],
     [trailingPE |-> Num(30000), priceToBook |-> Num(3000),
      debtToEquity |-> Num(150000), returnOnEquity |-> Num(120),
      currentRatio |-> Num(1200), marketCap |-> Num(60000), beta |-> Num(1300)],
     [trailingPE |-> Num(60000), priceToBook |-> Num(6000),
      debtToEquity |-> Num(250000), returnOnEquity |-> Num(30),
      currentRatio |-> Num(700), revenueGrowth |-> Num(0 - 100),
      beta |-> Num(1800)],
     [trailingPE |-> StrV(<<"1", "8", ".", "5">>), beta |-> StrV(<<"1", ".", "6">>),
      debtToEquity |-> Num(0)],
     [trailingPE |-> NoneV, priceToBook |-> Num(1500)],
     [trailingPE |-> Num(12000), debtToEquity |-> StrV(<<"N", "/", "A">>)]}

\* market_service.py 420-423: market_data_for_scoring
ScoreInit ==
    /\ score_in \in [history : ScoreHistories, fundamentals : FundamentalsDicts]
    /\ score_out = [stability |-> NoOutcome, timing |-> NoOutcome,
                    risk |-> NoOutcome, fundamental |-> NoOutcome]
    /\ ConsensusIdle /\ RecIdle /\ TechIdle /\ RankIdle /\ BatchIdle /\ HoursIdle /\ RaceIdle /\ FanIdle /\ SigIdle /\ StaleIdle

\* market_service.py 412
ScoreFundamental ==
    /\ score_out.fundamental = NoOutcome
    /\ score_out' = [score_out EXCEPT !.fundamental = FundamentalAnalyze(score_in.fundamentals)]
    /\ UNCHANGED score_in
    /\ UNCHANGED nonScoreVars

\* market_service.py 425
ScoreStability ==
    /\ score_out.stability = NoOutcome
    /\ score_out' = [score_out EXCEPT !.stability = StabilityCalculateScore(score_in)]
    /\ UNCHANGED score_in
    /\ UNCHANGED nonScoreVars

\* market_service.py 426
ScoreTiming ==
    /\ score_out.timing = NoOutcome
    /\ score_out' = [score_out EXCEPT !.timing = TimingCalculateScore(score_in)]
    /\ UNCHANGED score_in
    /\ UNCHANGED nonScoreVars

\* market_service.py 427
ScoreRisk ==
    /\ score_out.risk = NoOutcome
    /\ score_out' = [score_out EXCEPT !.risk = CalculateRisk(score_in)]
    /\ UNCHANGED score_in
    /\ UNCHANGED nonScoreVars

NextScore == ScoreFundamental \/ ScoreStability \/ ScoreTiming \/ ScoreRisk

(***************************************************************************)
(* Claims on the scorers                                                   *)
(***************************************************************************)
Scoring == score_out # NoOutcome

\* the three scorers' totals, as far as computed, are integers in [0,100]
ScorerTotalsInRange ==
    /\ score_out.stability # NoOutcome => score_out.stability.score \in 0..100
    /\ score_out.timing # NoOutcome => score_out.timing.score \in 0..100
    /\ score_out.risk # NoOutcome => score_out.risk.risk_score \in 0..100

\* C6 as stated: the three scorers' totals and the fundamental
\* health_score are integers in [0,100] for every input.
C6_EveryTotalInRange ==
    Scoring =>
        /\ ScorerTotalsInRange
        /\ score_out.fundamental # NoOutcome =>
              /\ "health_score" \in DOMAIN score_out.fundamental
              /\ score_out.fundamental.health_score \in 0..100

\* C6: the three scorers' totals are integers in [0,100] for every input;
\* the fundamental analysis carries either a health_score that is an
\* integer in [0,100] or, when a ratio cannot be converted, an error marker
\* and no health_score, for which the composer reads 50.
C6_TotalsInRangeOrErrorMarker ==
    Scoring =>
        /\ ScorerTotalsInRange
        /\ score_out.fundamental # NoOutcome =>
              /\ IF "health_score" \in DOMAIN score_out.fundamental
                 THEN score_out.fundamental.health_score \in 0..100
                 ELSE "error" \in DOMAIN score_out.fundamental
              /\ Get(score_out.fundamental, "health_score", 50) \in 0..100

\* all four have run on 20 bars or more containing a zero close and on
\* fundamentals whose debtToEquity is "N/A": two scorers took their except
\* branch, the timing scorer did not
C6_Witness ==
    /\ Scoring
    /\ Len(score_in.history) >= 20
    /\ Volatility(score_in.history).nan
    /\ score_out.stability # NoOutcome /\ "error" \in DOMAIN score_out.stability
    /\ score_out.risk # NoOutcome /\ "error" \in DOMAIN score_out.risk
    /\ score_out.timing # NoOutcome /\ "error" \notin DOMAIN score_out.timing
    /\ score_out.fundamental # NoOutcome /\ "error" \in DOMAIN score_out.fundamental

\* the ratio bag is cheap, lightly indebted and profitable, and supplies no
\* current ratio
CheapAndSound(fundamentals) ==
    /\ Floatable(fundamentals, {"trailingPE", "priceToBook", "debtToEquity",
                                "returnOnEquity", "profitMargin"})
    /\ "trailingPE" \in DOMAIN fundamentals /\ Val(fundamentals, "trailingPE", 0) < 15000
    /\ "priceToBook" \in DOMAIN fundamentals /\ Val(fundamentals, "priceToBook", 0) < 2000
    /\ "debtToEquity" \in DOMAIN fundamentals /\ Val(fundamentals, "debtToEquity", 0) < 50000
    /\ "returnOnEquity" \in DOMAIN fundamentals /\ Val(fundamentals, "returnOnEquity", 0) > 150
    /\ "profitMargin" \in DOMAIN fundamentals /\ Val(fundamentals, "profitMargin", 0) > 100
    /\ "currentRatio" \notin DOMAIN fundamentals

\* C11: for a ratio bag with PE < 15, PB < 2, debt/equity < 0.5, ROE > 15%
\* and profit margin > 10% that supplies no current ratio, analyze returns
\* valuation UNDERVALUED and financial_health STRONG.
C11_UndervaluedAndStrong ==
    (score_out.fundamental # NoOutcome /\ CheapAndSound(score_in.fundamentals)) =>
        /\ "valuation" \in DOMAIN score_out.fundamental
        /\ score_out.fundamental.valuation = "UNDERVALUED"
        /\ "financial_health" \in DOMAIN score_out.fundamental
        /\ score_out.fundamental.financial_health = "STRONG"

\* C17: a scorer in which an exception occurred returns a neutral default
\* score (50, label UNKNOWN) with its error marker, so that the composite
\* takes a neutral value for it.
C17_FailedScorerIsNeutral ==
    /\ (score_out.stability # NoOutcome /\ "error" \in DOMAIN score_out.stability)
          => score_out.stability.score = 50
    /\ (score_out.timing # NoOutcome /\ "error" \in DOMAIN score_out.timing)
          => score_out.timing.score = 50 /\ score_out.timing.signal = "UNKNOWN"
    /\ (score_out.risk # NoOutcome /\ "error" \in DOMAIN score_out.risk)
          => score_out.risk.risk_score = 50 /\ score_out.risk.risk_level = "UNKNOWN"

SpecScore == ScoreInit /\ [][NextScore]_vars

(***************************************************************************)
(* Batch fan-out of the rankers: each ranker builds one coroutine per      *)
(* symbol of its truncated universe and awaits asyncio.gather over them.   *)
(* A task is "created" until the event loop first runs it, "in_flight"     *)
(* while it is inside get_comprehensive_analysis and "done" afterwards.    *)
(***************************************************************************)
MaxUniverse == 6

\* stocks[:20] (sector_recommender.py 47), affordable_stocks[:100]
\* (general_recommender.py 76), symbols[:5] (comparison_engine.py 22)
BatchSize(kind, universe) ==
    CASE kind = "sector" -> IF universe < 20 THEN universe ELSE 20
      [] kind = "general" -> IF universe < 100 THEN universe ELSE 100
      [] OTHER -> IF universe < 5 THEN universe ELSE 5

\* asyncio.Semaphore(3) of get_top_picks (sector_recommender.py 51); the
\* other two rankers create none
SemaphoreOf(kind) == IF kind = "sector" THEN 3 ELSE 0

\* what one per-symbol analysis leaves the ranker with: an exception or
\* error dict (the symbol is skipped), or the composite the ranker scores
\* it with
AnalysisResults ==
    {[kind |-> "failed"]} \cup {[kind |-> "scored", composite_score |-> c] : c \in {60, 80}}

\* asyncio.wait(..., return_when=FIRST_COMPLETED)
BatchGathered_FirstCompleted(tasks) ==
    tasks = <<>> \/ \E i \in DOMAIN tasks : tasks[i] = "done"

\* `await asyncio.gather(*tasks, return_exceptions=True)` has returned
\* (sector_recommender.py 65, general_recommender.py 81,
\* comparison_engine.py 26)
BatchGathered(tasks) == \A i \in DOMAIN tasks : tasks[i] = "done"

RECURSIVE BatchScored(_, _)
\* the scoring loops (sector_recommender.py 68-83, general_recommender.py
\* 84-110): analyses in submission order, failures skipped; every stock of
\* the general ranker is in sector "GENERAL" (see ExtractSector)
BatchScored(scores, i) ==
    IF i > Len(scores) THEN <<>>
    ELSE IF scores[i].kind # "scored" THEN BatchScored(scores, i + 1)
    ELSE <<[symbol |-> i, sector |-> "GENERAL",
            composite_score |-> scores[i].composite_score]>>
         \o BatchScored(scores, i + 1)

\* sector_recommender.py 93-101: sort, then results[:limit];
\* general_recommender.py 122: _apply_diversification.  compare_stocks
\* returns every valid symbol in submission order, not a ranked pick list.
BatchPicks(kind, scores, limit) ==
    CASE kind = "sector" -> Take(SortByScoreDesc(BatchScored(scores, 1)), limit)
      [] kind = "general" -> ApplyDiversification(BatchScored(scores, 1), limit)
      [] OTHER -> BatchScored(scores, 1)

\* a semaphore whose permit is lost when the analysis raises
SemAfterExit_LeakOnRaise(sem, result) ==
    IF result.kind = "failed" THEN sem ELSE sem + 1

\* sector_recommender.py 56: `async with sem` releases the permit when the
\* block is left, by return or by exception
SemAfterExit(sem, result) == sem + 1

BatchInit ==
    /\ batch_in \in [kind : {"sector", "general", "compare"}, universe : 0..MaxUniverse,
                     limit : {1, MaxLimit}]
    /\ batch_tasks = [i \in 1..BatchSize(batch_in.kind, batch_in.universe) |-> "created"]
    /\ batch_sem = SemaphoreOf(batch_in.kind)
    /\ batch_scores = [i \in 1..BatchSize(batch_in.kind, batch_in.universe) |-> NoOutcome]
    /\ batch_picks = NoOutcome
    /\ ConsensusIdle /\ RecIdle /\ TechIdle /\ ScoreIdle /\ RankIdle /\ HoursIdle /\ RaceIdle /\ FanIdle /\ SigIdle /\ StaleIdle

\* sector_recommender.py 55-58: limited_analyze enters `async with sem` and
\* calls get_comprehensive_analysis; a task waits while the semaphore is 0
LimitedAnalyzeEnter ==
    /\ batch_in.kind = "sector"
    /\ batch_sem > 0
    /\ \E i \in DOMAIN batch_tasks :
          /\ batch_tasks[i] = "created"
          /\ batch_tasks' = [batch_tasks EXCEPT ![i] = "in_flight"]
    /\ batch_sem' = batch_sem - 1
    /\ UNCHANGED <<batch_in, batch_scores, batch_picks>>
    /\ UNCHANGED nonBatchVars

\* sector_recommender.py 59-62: the analysis returns or raises and the
\* semaphore is released
LimitedAnalyzeExit ==
    /\ batch_in.kind = "sector"
    /\ \E i \in DOMAIN batch_tasks :
          /\ batch_tasks[i] = "in_flight"
          /\ batch_tasks' = [batch_tasks EXCEPT ![i] = "done"]
          /\ \E r \in AnalysisResults :
                /\ batch_scores' = [batch_scores EXCEPT ![i] = r]
                /\ batch_sem' = SemAfterExit(batch_sem, r)
    /\ UNCHANGED <<batch_in, batch_picks>>
    /\ UNCHANGED nonBatchVars

\* general_recommender.py 80-81, comparison_engine.py 25-26: gather runs
\* get_comprehensive_analysis(sym) itself as the task
AnalysisStart ==
    /\ batch_in.kind \in {"general", "compare"}
    /\ \E i \in DOMAIN batch_tasks :
          /\ batch_tasks[i] = "created"
          /\ batch_tasks' = [batch_tasks EXCEPT ![i] = "in_flight"]
    /\ UNCHANGED <<batch_in, batch_sem, batch_scores, batch_picks>>
    /\ UNCHANGED nonBatchVars

\* the analysis of one symbol returns or raises
AnalysisEnd ==
    /\ batch_in.kind \in {"general", "compare"}
    /\ \E i \in DOMAIN batch_tasks :
          /\ batch_tasks[i] = "in_flight"
          /\ batch_tasks' = [batch_tasks EXCEPT ![i] = "done"]
          /\ \E r \in AnalysisResults : batch_scores' = [batch_scores EXCEPT ![i] = r]
    /\ UNCHANGED <<batch_in, batch_sem, batch_picks>>
    /\ UNCHANGED nonBatchVars

\* the ranker resumes after gather, scores, orders and returns
BatchRank ==
    /\ batch_picks = NoOutcome
    /\ BatchGathered(batch_tasks)
    /\ batch_picks' = [kind |-> "return",
                       value |-> BatchPicks(batch_in.kind, batch_scores, batch_in.limit)]
    /\ UNCHANGED <<batch_in, batch_tasks, batch_sem, batch_scores>>
    /\ UNCHANGED nonBatchVars

NextBatch ==
    \/ LimitedAnalyzeEnter
    \/ LimitedAnalyzeExit
    \/ AnalysisStart
    \/ AnalysisEnd
    \/ BatchRank

(***************************************************************************)
(* Claims on the batch fan-out                                             *)
(***************************************************************************)
\* number of full per-symbol analyses in flight
InFlight == Cardinality({i \in DOMAIN batch_tasks : batch_tasks[i] = "in_flight"})

\* C12: in every batch ranker the number of full per-symbol analyses
\* simultaneously in flight never exceeds 3, for any universe size.
C12_AtMostThreeInFlight == InFlight <= 3

\* C23: the pick list a ranker returns is in non-increasing composite
\* order and has at most `limit` entries, and it is returned only when no
\* per-symbol analysis of the batch is still waiting or in flight.
C23_RankedAfterAllAnalyses ==
    batch_picks # NoOutcome =>
        /\ \A i \in DOMAIN batch_tasks : batch_tasks[i] = "done"
        /\ batch_in.kind \in {"sector", "general"} =>
              /\ Len(batch_picks.value) <= batch_in.limit
              /\ \A i \in 1..(Len(batch_picks.value) - 1) :
                    batch_picks.value[i].composite_score
                        >= batch_picks.value[i + 1].composite_score

\* the sector ranker returned 3 of 4 scored stocks, the 60 submitted first
\* ranked below the 80s
C23_Witness ==
    /\ batch_picks # NoOutcome
    /\ batch_in.kind = "sector"
    /\ batch_in.limit = 3
    /\ Len(batch_scores) >= 4
    /\ batch_scores[1].kind = "scored" /\ batch_scores[1].composite_score = 60
    /\ batch_scores[2].kind = "scored" /\ batch_scores[2].composite_score = 80
    /\ batch_scores[3].kind = "failed"
    /\ Len(batch_picks.value) = 3
    /\ batch_picks.value[1].symbol = 2
    /\ batch_picks.value[3].symbol = 1

\* the sector ranker's batch
SectorBatch == batch_in.kind = "sector"

\* C25: in get_top_picks at most 3 analyses hold the semaphore, every
\* analysis that finishes (returned or raised) has given its permit back,
\* and every submitted analysis eventually runs and the ranker returns.
C25_PermitsBoundedAndAllRun ==
    /\ [](SectorBatch => (InFlight <= 3 /\ batch_sem + InFlight = 3))
    /\ (SectorBatch => <>((\A i \in DOMAIN batch_tasks : batch_tasks[i] = "done")
                           /\ batch_picks # NoOutcome))

\* three analyses hold the semaphore, a fourth waits, one has raised
C25_Witness ==
    /\ SectorBatch
    /\ InFlight = 3 /\ batch_sem = 0
    /\ \E i \in DOMAIN batch_tasks : batch_tasks[i] = "created"
    /\ \E i \in DOMAIN batch_tasks : batch_scores[i].kind = "failed"

\* get_top_picks alone, on a sector of at most MaxSector stocks
MaxSector == 5

SectorBatchInit ==
    /\ BatchInit
    /\ batch_in.kind = "sector"
    /\ batch_in.universe <= MaxSector
    /\ batch_in.limit = MaxLimit

NextSectorBatch == LimitedAnalyzeEnter \/ LimitedAnalyzeExit \/ BatchRank

\* the event loop keeps running tasks that are ready, and every per-symbol
\* analysis terminates
SpecBatchFair ==
    SectorBatchInit /\ [][NextSectorBatch]_vars /\ WF_vars(NextSectorBatch)

SpecBatch == BatchInit /\ [][NextBatch]_vars

(***************************************************************************)
(* Two get_consensus_price calls for one symbol that both missed the cache *)
(* (cache.py 43 returned nothing to each) and now run interleaved at the   *)
(* wrapper's awaits: the fetch (line 52), redis.set (line 56) and the      *)
(* second fetch of the except branch (line 62).                            *)
(***************************************************************************)
\* what the providers may give a racing call: all valid, prices apart,
\* only one valid, none valid, a malformed price
RaceFanOuts ==
    {<<DictResp([LastPrice |-> StrV(<<"1", ",", "0", "0", "0", ".", "0", "0">>),
                 Date |-> ObjV(<<"T", "s">>)]),
       DictResp([currentPrice |-> Num(1005000)]),
       DictResp([price |-> Num(1000123), source |-> StrV(<<"G">>)])>>,
     <<ExcResp,
       DictResp([currentPrice |-> Num(1010000)]),
       DictResp([price |-> Num(1000123), source |-> StrV(<<"G">>)])>>,
     <<ExcResp, DictResp(<<>>),
       DictResp([price |-> Num(1009990), source |-> StrV(<<"G">>)])>>,
     <<ExcResp, DictResp(<<>>), DictResp([price |-> Num(0), source |-> StrV(<<"G">>)])>>,
     <<DictResp([LastPrice |-> StrV(<<"-">>)]),
       DictResp([currentPrice |-> Num(1005000)]),
       DictResp([price |-> Num(1000123), source |-> StrV(<<"G">>)])>>}

RaceStore_KeepFirst(store, result, expire) ==
    IF store.present THEN store ELSE Entry(JsonRoundTrip(result), expire)

\* cache.py 56: redis.set(cache_key, json.dumps(result, default=str),
\* ex=expire) replaces whatever the key holds
RaceStore(store, result, expire) == Entry(JsonRoundTrip(result), expire)

RaceInit ==
    /\ race_store = NoEntry
    /\ race_calls \in [1..2 -> [pc : {"missed"}, clock : CallClocks, fanouts : {0},
                                gathered : {<<>>}, outcome : {NoOutcome}]]
    /\ race_last = 0
    /\ ConsensusIdle /\ RecIdle /\ TechIdle /\ ScoreIdle /\ RankIdle
    /\ BatchIdle /\ HoursIdle /\ FanIdle /\ SigIdle /\ StaleIdle

\* cache.py 52: the call's own fan-out settles and the fetch returns or
\* raises
RaceFetch(c) ==
    /\ race_calls[c].pc = "missed"
    /\ \E dl \in RaceFanOuts :
          race_calls' =
              [race_calls EXCEPT ![c].gathered = dl,
                                 ![c].fanouts = 1,
                                 ![c].outcome = FetchConsensusInternal(dl),
                                 ![c].pc = IF FetchConsensusInternal(dl).kind = "raise"
                                           THEN "except" ELSE "fetched"]
    /\ UNCHANGED <<race_store, race_last>>
    /\ UNCHANGED nonRaceVars

\* cache.py 54-58: redis.set succeeds and the call returns its result
RaceSet(c) ==
    /\ race_calls[c].pc = "fetched"
    /\ CacheExpiry(race_calls[c].clock) > 0
    /\ race_store' = RaceStore(race_store, race_calls[c].outcome.value,
                               CacheExpiry(race_calls[c].clock))
    /\ race_last' = c
    /\ race_calls' = [race_calls EXCEPT ![c].pc = "done"]
    /\ UNCHANGED nonRaceVars

\* cache.py 56 raises (connection lost, or an expire time that is not
\* positive) and control passes to the except branch
RaceSetFails(c) ==
    /\ race_calls[c].pc = "fetched"
    /\ race_calls' = [race_calls EXCEPT ![c].pc = "except"]
    /\ UNCHANGED <<race_store, race_last>>
    /\ UNCHANGED nonRaceVars

\* cache.py 59-62: the wrapped function is called again and its outcome is
\* the call's
RaceRetry(c) ==
    /\ race_calls[c].pc = "except"
    /\ \E dl \in RaceFanOuts :
          race_calls' =
              [race_calls EXCEPT ![c].gathered = dl,
                                 ![c].fanouts = 2,
                                 ![c].outcome = FetchConsensusInternal(dl),
                                 ![c].pc = "done"]
    /\ UNCHANGED <<race_store, race_last>>
    /\ UNCHANGED nonRaceVars

NextRace ==
    \E c \in 1..2 : RaceFetch(c) \/ RaceSet(c) \/ RaceSetFails(c) \/ RaceRetry(c)

(***************************************************************************)
(* Claims on concurrent cache misses                                       *)
(***************************************************************************)
BothDone == \A c \in 1..2 : race_calls[c].pc = "done"

\* C16: two calls that both missed each run their own provider fan-out
\* (neither waits for nor reuses the other's), each ends with the result it
\* computed itself, and once both have finished the cache entry holds the
\* value of whichever call wrote last.
C16_BothComputeLastWriteWins ==
    /\ \A c \in 1..2 :
          /\ race_calls[c].pc # "missed" =>
                /\ race_calls[c].fanouts >= 1
                /\ race_calls[c].outcome = FetchConsensusInternal(race_calls[c].gathered)
          /\ race_calls[c].pc # "done" =>
                ENABLED (RaceFetch(c) \/ RaceSet(c) \/ RaceSetFails(c) \/ RaceRetry(c))
    /\ BothDone =>
          IF race_last = 0 THEN race_store = NoEntry
          ELSE race_store = Entry(JsonRoundTrip(race_calls[race_last].outcome.value),
                                  CacheExpiry(race_calls[race_last].clock))

\* both calls stored, with different results, and the entry is the second
\* writer's
C16_Witness ==
    /\ BothDone
    /\ \A c \in 1..2 : race_calls[c].fanouts = 1 /\ race_calls[c].outcome.kind = "return"
    /\ race_calls[1].outcome # race_calls[2].outcome
    /\ race_last = 2
    /\ race_store.value = JsonRoundTrip(race_calls[2].outcome.value)
    /\ race_store.value # JsonRoundTrip(race_calls[1].outcome.value)

SpecRace == RaceInit /\ [][NextRace]_vars

(***************************************************************************)
(* The provider fan-out of _fetch_consensus_internal, step by step         *)
(***************************************************************************)
\* how a provider call can settle: a dict, a non-dict value, an exception
Settled == {"dict", "nondict", "exc"}

\* asyncio.wait(..., return_when=FIRST_COMPLETED): resume on the first result
GatherDone_FirstCompleted(tasks) == \E i \in 1..Len(tasks) : tasks[i] \in Settled

\* line 53: `await asyncio.gather(*tasks, return_exceptions=True)` resumes
\* when every awaitable has a result or an exception
GatherDone(tasks) == \A i \in 1..Len(tasks) : tasks[i] \in Settled

FanInit ==
    /\ fan_pc = "entered" /\ fan_tasks = <<>> /\ fan_merged = 0
    /\ ConsensusIdle /\ RecIdle /\ TechIdle /\ ScoreIdle /\ RankIdle
    /\ BatchIdle /\ HoursIdle /\ RaceIdle /\ SigIdle /\ StaleIdle

\* line 52: one coroutine object per provider; none has started to run
FanCreate ==
    /\ fan_pc = "entered"
    /\ fan_tasks' = [i \in 1..Len(Providers) |-> "coroutine"]
    /\ fan_pc' = "created"
    /\ UNCHANGED fan_merged
    /\ UNCHANGED nonFanVars

\* line 53: gather wraps every coroutine in a task, then suspends the caller
FanGather ==
    /\ fan_pc = "created"
    /\ fan_tasks' = [i \in 1..Len(fan_tasks) |-> "pending"]
    /\ fan_pc' = "gathering"
    /\ UNCHANGED fan_merged
    /\ UNCHANGED nonFanVars

\* a provider call settles, in any order, with a value or an exception
FanSettle ==
    /\ fan_pc = "gathering"
    /\ \E i \in 1..Len(fan_tasks), how \in Settled :
        /\ fan_tasks[i] = "pending"
        /\ fan_tasks' = [fan_tasks EXCEPT ![i] = how]
    /\ UNCHANGED <<fan_pc, fan_merged>>
    /\ UNCHANGED nonFanVars

\* line 53 returns details_list
FanResume ==
    /\ fan_pc = "gathering"
    /\ GatherDone(fan_tasks)
    /\ fan_pc' = "merging"
    /\ UNCHANGED <<fan_tasks, fan_merged>>
    /\ UNCHANGED nonFanVars

\* lines 66-99: one iteration of the loop over details_list
FanMerge ==
    /\ fan_pc = "merging"
    /\ fan_merged < Len(fan_tasks)
    /\ fan_merged' = fan_merged + 1
    /\ UNCHANGED <<fan_pc, fan_tasks>>
    /\ UNCHANGED nonFanVars

\* lines 101-134: status, price and the returned dict
FanReturn ==
    /\ fan_pc = "merging"
    /\ fan_merged = Len(fan_tasks)
    /\ fan_pc' = "returned"
    /\ UNCHANGED <<fan_tasks, fan_merged>>
    /\ UNCHANGED nonFanVars

NextFan ==
    \/ FanCreate
    \/ FanGather
    \/ FanSettle
    \/ FanResume
    \/ FanMerge
    \/ FanReturn

\* C21: no provider call runs before all of them are issued, and no result
\* is merged (nor the merged result returned) while a provider call is
\* still unissued or pending.
C21_AllSettleBeforeMerge ==
    /\ (\E i \in 1..Len(fan_tasks) : fan_tasks[i] \in Settled)
          => \A j \in 1..Len(fan_tasks) : fan_tasks[j] # "coroutine"
    /\ (fan_merged >= 1 \/ fan_pc = "returned")
          => \A j \in 1..Len(fan_tasks) : fan_tasks[j] \in Settled

\* the first result is merged after one call failed and two returned
C21_Witness ==
    /\ fan_merged = 1
    /\ fan_tasks = <<"exc", "dict", "nondict">>

SpecFan == FanInit /\ [][NextFan]_vars

(***************************************************************************)
(* Overall technical signal: TechnicalAnalyzer._generate_signal            *)
(***************************************************************************)
\* lines 251-273: the votes of the four indicators
BuySignals(ma_data, rsi, macd, bb) ==
    (IF Get(ma_data, "ma50_signal", "None") = "ABOVE" THEN 1 ELSE 0)
    + (IF rsi.signal = "OVERSOLD" THEN 2 ELSE 0)
    + (IF macd.signal = "BUY" THEN 1 ELSE 0)
    + (IF bb.signal = "OVERSOLD" THEN 1 ELSE 0)

SellSignals(ma_data, rsi, macd, bb) ==
    (IF Get(ma_data, "ma50_signal", "None") = "ABOVE" THEN 0 ELSE 1)
    + (IF rsi.signal = "OVERBOUGHT" THEN 2 ELSE 0)
    + (IF macd.signal = "BUY" THEN 0 ELSE 1)
    + (IF bb.signal = "OVERBOUGHT" THEN 1 ELSE 0)

\* a volume spike counted as two votes for BUY whatever the tally
VolumeVotes_SpikeBuys(buy_signals, sell_signals, volume_data) ==
    IF volume_data.signal = "HIGH_VOLUME_SPIKE"
    THEN [buy |-> buy_signals + 2, sell |-> sell_signals]
    ELSE [buy |-> buy_signals, sell |-> sell_signals]

\* lines 275-280: the tallies after the volume confirmation
VolumeVotes(buy_signals, sell_signals, volume_data) ==
    IF volume_data.signal = "HIGH_VOLUME_SPIKE"
    THEN IF buy_signals > sell_signals
         THEN [buy |-> buy_signals + 1, sell |-> sell_signals]
         ELSE IF sell_signals > buy_signals
         THEN [buy |-> buy_signals, sell |-> sell_signals + 1]
         ELSE [buy |-> buy_signals, sell |-> sell_signals]
    ELSE [buy |-> buy_signals, sell |-> sell_signals]

\* lines 282-287
SignalOf(votes) ==
    IF votes.buy > votes.sell THEN "BUY"
    ELSE IF votes.sell > votes.buy THEN "SELL"
    ELSE "NEUTRAL"

\* TechnicalAnalyzer._generate_signal, lines 246-287
GenerateSignal(call) ==
    SignalOf(VolumeVotes(BuySignals(call.ma_data, call.rsi, call.macd, call.bb),
                         SellSignals(call.ma_data, call.rsi, call.macd, call.bb),
                         call.volume_data))

\* the dicts analyze hands over (line 54), by the signals their calculators
\* can give on a history of at least 50 bars (lines 72-214)
SignalCalls ==
    [ma_data : {[ma50_signal |-> m] : m \in {"ABOVE", "BELOW"}},
     rsi : {[signal |-> r] : r \in {"OVERSOLD", "OVERBOUGHT", "NEUTRAL"}},
     macd : {[signal |-> m] : m \in {"BUY", "SELL"}},
     bb : {[signal |-> b] : b \in {"OVERSOLD", "OVERBOUGHT", "NEUTRAL"}},
     volume_data : {[signal |-> v] :
                      v \in {"NEUTRAL", "HIGH_VOLUME_SPIKE", "ACCUMULATION", "LOW_LIQUIDITY"}}]

SigInit ==
    /\ sig_in \in SignalCalls
    /\ sig_out = NoOutcome
    /\ ConsensusIdle /\ RecIdle /\ TechIdle /\ ScoreIdle /\ RankIdle
    /\ BatchIdle /\ HoursIdle /\ RaceIdle /\ FanIdle /\ StaleIdle

\* line 54
SigGenerateSignal ==
    /\ sig_out = NoOutcome
    /\ sig_out' = [kind |-> "return", value |-> GenerateSignal(sig_in)]
    /\ UNCHANGED sig_in
    /\ UNCHANGED nonSigVars

NextSig == SigGenerateSignal

\* votes of the four indicators as the specification counts them: MA50
\* position 1, RSI 2, MACD 1, Bollinger 1
VotesFor ==
    (IF sig_in.ma_data.ma50_signal = "ABOVE" THEN 1 ELSE 0)
    + (IF sig_in.rsi.signal = "OVERSOLD" THEN 2 ELSE 0)
    + (IF sig_in.macd.signal = "BUY" THEN 1 ELSE 0)
    + (IF sig_in.bb.signal = "OVERSOLD" THEN 1 ELSE 0)

VotesAgainst ==
    (IF sig_in.ma_data.ma50_signal = "BELOW" THEN 1 ELSE 0)
    + (IF sig_in.rsi.signal = "OVERBOUGHT" THEN 2 ELSE 0)
    + (IF sig_in.macd.signal = "SELL" THEN 1 ELSE 0)
    + (IF sig_in.bb.signal = "OVERBOUGHT" THEN 1 ELSE 0)

\* C24: the overall signal is the strict majority of the votes of MA50 (1),
\* RSI (2), MACD (1) and Bollinger (1), NEUTRAL on a tie, whatever the
\* volume analysis says: a volume spike never changes it.
C24_MajorityOfFourIndicators ==
    sig_out # NoOutcome =>
        sig_out.value = (IF VotesFor > VotesAgainst THEN "BUY"
                         ELSE IF VotesAgainst > VotesFor THEN "SELL"
                         ELSE "NEUTRAL")

\* a tie of the four indicators with a volume spike stays NEUTRAL
C24_Witness ==
    /\ sig_out # NoOutcome
    /\ sig_in.volume_data.signal = "HIGH_VOLUME_SPIKE"
    /\ VotesFor = 2 /\ VotesAgainst = 2
    /\ sig_out.value = "NEUTRAL"

SpecSig == SigInit /\ [][NextSig]_vars

(***************************************************************************)
(* Age of a cached consensus result.  Instants are whole seconds since     *)
(* Monday 00:00 IST.                                                       *)
(***************************************************************************)
\* the clock reading at an instant
ClockOf(instant) ==
    [weekday |-> (instant \div 86400) % 7,
     second |-> instant % 86400,
     microsecond |-> 0]

\* longest provider fan-out considered, in seconds
MaxFetch == 2

\* calls shortly before the open, in session, around the close, in the
\* evening (Monday and Friday) and on Saturday
CallInstants ==
    {33290, 33299, 33300, 45000, 55790, 55799, 55801, 60000,
     4 * 86400 + 60000, 5 * 86400 + 45000}

\* seconds after the store at which the symbol is asked for again
ServeOffsets == {0, 1, 5, 9, 59, 60, 61, 86399, 86400}

StaleInit ==
    /\ stale_call \in [at : CallInstants, fetch : 0..MaxFetch]
    /\ stale_entry = NoEntry
    /\ stale_hit = NoOutcome
    /\ ConsensusIdle /\ RecIdle /\ TechIdle /\ ScoreIdle /\ RankIdle
    /\ BatchIdle /\ HoursIdle /\ RaceIdle /\ FanIdle /\ SigIdle

\* consensus_engine.py 40 computes the TTL when the call starts; cache.py
\* 52-56 then awaits the fetch and stores the result with that TTL
StaleMissStore ==
    /\ stale_entry = NoEntry
    /\ CacheExpiry([now |-> ClockOf(stale_call.at), elapsed |-> 0]) > 0
    /\ stale_entry' = [present |-> TRUE,
                       stored_at |-> stale_call.at + stale_call.fetch,
                       ex |-> CacheExpiry([now |-> ClockOf(stale_call.at),
                                           elapsed |-> 0])]
    /\ UNCHANGED <<stale_call, stale_hit>>
    /\ UNCHANGED nonStaleVars

\* cache.py 43-48: a later call finds the entry, which redis keeps for `ex`
\* seconds from the store
StaleHit ==
    /\ stale_entry.present
    /\ stale_hit = NoOutcome
    /\ \E k \in ServeOffsets :
          /\ k < stale_entry.ex
          /\ stale_hit' = [kind |-> "return", at |-> stale_entry.stored_at + k]
    /\ UNCHANGED <<stale_call, stale_entry>>
    /\ UNCHANGED nonStaleVars

NextStale == StaleMissStore \/ StaleHit

\* C29: a result stored while the market is open is not served more than
\* 60 seconds after the store; a result stored while it is closed is served
\* neither at or after the next session open nor more than 24 hours after
\* the store.
C29_StalenessBound ==
    stale_hit # NoOutcome =>
        IF SessionOpen(ClockOf(stale_entry.stored_at))
        THEN stale_hit.at - stale_entry.stored_at <= 60
        ELSE /\ stale_hit.at
                  < stale_entry.stored_at + ToNextSessionOpen(ClockOf(stale_entry.stored_at))
             /\ stale_hit.at - stale_entry.stored_at <= 86400

SpecStale == StaleInit /\ [][NextStale]_vars

=============================================================================
